---- MODULE Spec2Model ----
(***************************************************************************)
(* ocmgr: profile composition (internal/resolver) and materialization      *)
(* (internal/copier), driven by the init command (internal/cli/init.go).   *)
(*                                                                         *)
(* Strings are sequences of one-character strings, so that                 *)
(* strings.TrimSpace and the comparison with "" are modelled by what they  *)
(* do.  A profile name is a one-character string such as <<"a">>.          *)
(***************************************************************************)
EXTENDS FiniteSets, Integers, Sequences, TLC

\* ------------------------------------------------------------------------
\* Bounds
\* ------------------------------------------------------------------------
\* longest list of requested profile names
MaxReq == 3
\* most Compare answers the conflict callback gives for one file
MaxCompare == 2
\* longest --profile list given to the init command
MaxProfiles == 2
\* most CopyFile calls that fail in one run
MaxFaults == 1
\* longest string given to parseContentDirs
MaxRaw == 4
\* most lines on standard input when the conflict callback is invoked
MaxLines == 3
\* most prompts written after the end of the input has been reached
MaxEofPrompts == 2

\* ------------------------------------------------------------------------
\* Strings and the loader
\* ------------------------------------------------------------------------
Space == " "
EmptyStr == <<>>
Names == {<<"a">>, <<"b">>, <<"c">>}

\* what a loader hands back as the "extends" string: empty, blank, a name,
\* or a name with surrounding white space
ExtVals ==
  {EmptyStr, <<Space>>} \cup Names \cup {<<Space>> \o n : n \in Names}

\* a loader call returns (extends string, err error)
LoadOk(e) == [ext |-> e, err |-> FALSE]
LoadErr == [ext |-> EmptyStr, err |-> TRUE]
LoadResults == {LoadOk(e) : e \in ExtVals} \cup {LoadErr}

\* the loaders Resolve is run against: any total map from a name to a
\* loader result
Loaders == [Names -> LoadResults]

RECURSIVE TrimLeft(_)
TrimLeft(s) ==
  IF s # <<>> /\ Head(s) = Space THEN TrimLeft(Tail(s)) ELSE s

RECURSIVE TrimRight(_)
TrimRight(s) ==
  IF s # <<>> /\ s[Len(s)] = Space
    THEN TrimRight(SubSeq(s, 1, Len(s) - 1))
    ELSE s

TrimSpace(s) == TrimRight(TrimLeft(s))

\* the chain left in walk order [name, parent, ...]
reverseNot(s) == s

reverse(s) == [i \in 1..Len(s) |-> s[Len(s) + 1 - i]]

formatCycle(chain, loopBack) == Append(chain, loopBack)

SeqOfUpTo(S, n) == UNION {[1..k -> S] : k \in 0..n}

Range(s) == {s[i] : i \in DOMAIN s}

\* the append without the seen check
appendAll(res, sn, ch) ==
  [result |-> res \o ch, seen |-> sn \cup {ch[i] : i \in DOMAIN ch}]

\* the inner loop of Resolve: append the entries of a chain that are not
\* yet in seen, in order
RECURSIVE appendUnseen(_, _, _)
appendUnseen(res, sn, ch) ==
  IF ch = <<>> THEN [result |-> res, seen |-> sn]
  ELSE IF Head(ch) \in sn
    THEN appendUnseen(res, sn, Tail(ch))
    ELSE appendUnseen(Append(res, Head(ch)), sn \cup {Head(ch)}, Tail(ch))

NoErr == [kind |-> "none"]

\* ------------------------------------------------------------------------
\* cli.parseContentDirs.  In a raw filter string the words agents,
\* commands, skills, plugins and bogus stand for themselves as single
\* characters next to "," and " ".
\* ------------------------------------------------------------------------
ValidContentDirs == {"agents", "commands", "skills", "plugins"}

\* strings.Split(raw, ",")
RECURSIVE SplitComma(_, _, _)
SplitComma(raw, cur, acc) ==
  IF raw = <<>> THEN Append(acc, cur)
  ELSE IF Head(raw) = "," THEN SplitComma(Tail(raw), <<>>, Append(acc, cur))
  ELSE SplitComma(Tail(raw), Append(cur, Head(raw)), acc)

\* a successful return, and the error return with its message: the
\* offending token and "must be one of: agents, commands, skills, plugins"
ParseOk(dirs) == [dirs |-> dirs, err |-> FALSE, bad |-> <<>>, oneOf |-> <<>>]
ParseErr(d) ==
  [dirs |-> <<>>, err |-> TRUE, bad |-> d,
   oneOf |-> <<"agents", "commands", "skills", "plugins">>]

\* the loop body without the TrimSpace of each part
RECURSIVE parsePartsUntrimmed(_, _)
parsePartsUntrimmed(parts, dirs) ==
  IF parts = <<>> THEN ParseOk(dirs)
  ELSE LET d == Head(parts)
       IN  IF d = <<>> THEN parsePartsUntrimmed(Tail(parts), dirs)
           ELSE IF ~(Len(d) = 1 /\ d[1] \in ValidContentDirs)
             THEN ParseErr(d)
           ELSE parsePartsUntrimmed(Tail(parts), Append(dirs, d[1]))

\* the loop over the parts: trim, drop the empty ones, fail at the first
\* that is not in ValidContentDirs
RECURSIVE parseParts(_, _)
parseParts(parts, dirs) ==
  IF parts = <<>> THEN ParseOk(dirs)
  ELSE LET d == TrimSpace(Head(parts))
       IN  IF d = <<>> THEN parseParts(Tail(parts), dirs)
           ELSE IF ~(Len(d) = 1 /\ d[1] \in ValidContentDirs)
             THEN ParseErr(d)
           ELSE parseParts(Tail(parts), Append(dirs, d[1]))

parseContentDirs(raw) ==
  IF TrimSpace(raw) = <<>>
    THEN ParseOk(<<>>)
    ELSE parseParts(SplitComma(TrimSpace(raw), <<>>, <<>>), <<>>)

\* ------------------------------------------------------------------------
\* copier: strategies, choices, options, profile trees and the target
\* ------------------------------------------------------------------------
StrategyPrompt == "prompt"
StrategyOverwrite == "overwrite"
StrategyMerge == "merge"
StrategySkip == "skip"
\* a Strategy string that is none of the four constants
StrategyOther == "other"
Strategies ==
  {StrategyPrompt, StrategyOverwrite, StrategyMerge, StrategySkip,
   StrategyOther}

ChoiceOverwrite == "ChoiceOverwrite"
ChoiceSkip == "ChoiceSkip"
ChoiceCompare == "ChoiceCompare"
ChoiceCancel == "ChoiceCancel"
\* a ConflictChoice integer that is none of the four constants
ChoiceOther == "ChoiceOther"
Choices ==
  {ChoiceOverwrite, ChoiceSkip, ChoiceCompare, ChoiceCancel, ChoiceOther}

profileDirs == {"agents", "commands", "skills", "plugins"}

errCancelled == "copy operation cancelled by user"
NilError == "nil"

\* toSet: the lookup set of a string slice
toSet(items) == {items[i] : i \in DOMAIN items}

\* the include / exclude slices CopyProfile is called with
FilterPairs ==
  { [inc |-> <<>>, exc |-> <<>>],
    [inc |-> <<"agents">>, exc |-> <<>>],
    [inc |-> <<>>, exc |-> <<"plugins", "agents">>],
    [inc |-> <<"agents", "skills">>, exc |-> <<"skills">>] }

\* Options; OnConflict is TRUE when a callback is supplied, FALSE when nil
AllOptions ==
  { [Strategy |-> st, DryRun |-> dr, Force |-> fo, OnConflict |-> cb,
     IncludeDirs |-> fp.inc, ExcludeDirs |-> fp.exc] :
      st \in Strategies, dr \in BOOLEAN, fo \in BOOLEAN, cb \in BOOLEAN,
      fp \in FilterPairs }

\* permission bits: 0644 for profile files, 0600 for files already in the
\* target
SrcPerm == 420
OldPerm == 384

\* entries of a profile directory, as filepath.WalkDir presents them: a
\* directory, a file, or a second call for a directory that could not be
\* read (walkErr != nil)
DirEntry(rel) == [rel |-> rel, kind |-> "dir", content |-> "", perm |-> 0]
FileEntry(rel, c) ==
  [rel |-> rel, kind |-> "file", content |-> c, perm |-> SrcPerm]
ErrEntry(rel) == [rel |-> rel, kind |-> "err", content |-> "", perm |-> 0]

\* profile trees in WalkDir's lexical order; c tags the file contents
TreeFull(c) ==
  << DirEntry(<<>>),
     DirEntry(<<"agents">>),
     FileEntry(<<"agents", "x.md">>, c),
     DirEntry(<<"docs">>),
     FileEntry(<<"docs", "r.md">>, c),
     DirEntry(<<"plugins">>),
     FileEntry(<<"plugins", "p.ts">>, c),
     FileEntry(<<"profile.toml">>, c),
     DirEntry(<<"skills">>),
     DirEntry(<<"skills", "s">>),
     FileEntry(<<"skills", "s", "SKILL.md">>, c) >>

TreeAgents(c) ==
  << DirEntry(<<>>),
     DirEntry(<<"agents">>),
     FileEntry(<<"agents", "x.md">>, c),
     FileEntry(<<"profile.toml">>, c) >>

\* a profile whose root holds a regular file named like a content directory
TreeLooseFile(c) ==
  << DirEntry(<<>>),
     FileEntry(<<"commands">>, c),
     DirEntry(<<"plugins">>),
     FileEntry(<<"plugins", "p.ts">>, c),
     FileEntry(<<"profile.toml">>, c) >>

\* a profile whose agents directory cannot be read
TreeUnreadable(c) ==
  << DirEntry(<<>>),
     DirEntry(<<"agents">>),
     ErrEntry(<<"agents">>),
     DirEntry(<<"docs">>),
     ErrEntry(<<"docs">>),
     DirEntry(<<"plugins">>),
     FileEntry(<<"plugins", "p.ts">>, c) >>

\* a profile directory that cannot be opened at all
TreeMissing == << ErrEntry(<<>>) >>

Trees(c) ==
  {TreeFull(c), TreeAgents(c), TreeLooseFile(c), TreeUnreadable(c),
   TreeMissing}

\* the destinations, relative to targetDir
DestRels ==
  { <<"agents", "x.md">>, <<"commands">>, <<"docs", "r.md">>,
    <<"plugins", "p.ts">>, <<"profile.toml">>,
    <<"skills", "s", "SKILL.md">> }

NoFile == [content |-> "absent", perm |-> 0]
OldFile == [content |-> "old", perm |-> OldPerm]

\* the proper ancestors of a relative path (the directories MkdirAll makes)
Ancestors(rel) == {SubSeq(rel, 1, k) : k \in 1..(Len(rel) - 1)}

IsPrefix(p, q) == Len(p) <= Len(q) /\ SubSeq(q, 1, Len(p)) = p

\* targets before the call: any set of the destinations already there
\* (with their parent directories), or a directory where a file would go
TargetFiles == {[r \in DestRels |-> IF r \in S THEN OldFile ELSE NoFile] :
                  S \in SUBSET {<<"agents", "x.md">>, <<"commands">>,
                                <<"plugins", "p.ts">>,
                                <<"skills", "s", "SKILL.md">>}}

DirsOf(tf) == UNION {Ancestors(r) : r \in {q \in DestRels : tf[q] # NoFile}}

\* os.Stat(dst) never succeeds: every destination is taken to be new
ExistsNever(tf, td, rel) == FALSE

\* os.Stat(dst) succeeds for a file and for a directory
Exists(tf, td, rel) == tf[rel] # NoFile \/ rel \in td

\* how one CopyFile call can end: success, or a failure before anything is
\* touched ("stat"), after the parent directories are made ("create"), or
\* after the destination is opened and truncated ("copy")
CopyOutcomes == {"ok", "stat", "create", "copy"}

\* the destination opened with O_EXCL instead of O_TRUNC: an existing
\* destination makes the call fail
CopyFileExclusive(tf, td, e, oc) ==
  LET made == td \cup Ancestors(e.rel)
      real == IF Exists(tf, td, e.rel) /\ oc \in {"ok", "copy"}
                THEN "create" ELSE oc
  IN  CASE real = "ok" ->
             [tf |-> [tf EXCEPT ![e.rel] =
                        [content |-> e.content, perm |-> e.perm]],
              td |-> made, err |-> FALSE]
        [] real = "stat" -> [tf |-> tf, td |-> td, err |-> TRUE]
        [] real = "create" -> [tf |-> tf, td |-> made, err |-> TRUE]
        [] real = "copy" ->
             [tf |-> [tf EXCEPT ![e.rel] =
                        [content |-> "partial", perm |-> e.perm]],
              td |-> made, err |-> TRUE]

\* CopyFile(src, dst) on the target (tf, td) ending as oc
CopyFile(tf, td, e, oc) ==
  LET made == td \cup Ancestors(e.rel)
      perm == IF tf[e.rel] # NoFile THEN tf[e.rel].perm ELSE e.perm
      real == IF e.rel \in td /\ oc \in {"ok", "copy"} THEN "create" ELSE oc
  IN  CASE real = "ok" ->
             [tf |-> [tf EXCEPT ![e.rel] =
                        [content |-> e.content, perm |-> perm]],
              td |-> made, err |-> FALSE]
        [] real = "stat" -> [tf |-> tf, td |-> td, err |-> TRUE]
        [] real = "create" -> [tf |-> tf, td |-> made, err |-> TRUE]
        [] real = "copy" ->
             [tf |-> [tf EXCEPT ![e.rel] =
                        [content |-> "partial", perm |-> perm]],
              td |-> made, err |-> TRUE]

EmptyResult == [Copied |-> <<>>, Skipped |-> <<>>, Errors |-> <<>>]

\* an error the OnConflict callback returns
errCallback == "callback error"

\* no callback answer and no resolveConflict result yet
NoAnswer == [choice |-> "none", err |-> FALSE]
NoDecision == [choice |-> "none", err |-> NilError]

\* ------------------------------------------------------------------------
\* State
\* ------------------------------------------------------------------------
VARIABLES
  names,      \* Resolve: the requested names
  load,       \* Resolve: the loader
  rpc,        \* Resolve: position ("loop", "walk", "done", "failed")
  ri,         \* Resolve: index of the requested name being walked
  seen,       \* Resolve: seen
  result,     \* Resolve: result
  current,    \* walkChain: current
  visiting,   \* walkChain: visiting
  chain,      \* walkChain: chain
  calls,      \* identifiers the loader was called with in this walk
  rret,       \* Resolve: returned slice
  rerr,       \* Resolve: returned error
  callOpts,   \* CopyProfile: the Options the caller passed
  opts,       \* CopyProfile: its own copy of the Options
  tree,       \* CopyProfile: the profileDir tree being walked
  wi,         \* WalkDir: index of the next entry to present
  cpc,        \* CopyProfile: position ("idle", "walk", "conflict",
              \*   "returned")
  cres,       \* CopyProfile: result
  cerr,       \* CopyProfile: returned error
  target,     \* files under targetDir, by relative path
  tdirs,      \* directories under targetDir
  asked,      \* relative paths the OnConflict callback was invoked for
              \*   during this CopyProfile call
  compares,   \* Compare answers given so far for the file in conflict
  faults,     \* CopyFile calls that have failed so far
  target0,    \* history: target when CopyProfile was entered
  tdirs0,     \* history: tdirs when CopyProfile was entered
  flags,      \* runInit: force, merge, dryRun, onlyRaw, excludeRaw
  trees,      \* the store: the directory tree of each profile
  pc,         \* runInit: position
  resolved,   \* runInit: resolved
  profiles,   \* runInit: profiles (the loaded profiles, by name)
  pi,         \* runInit: index into profiles of the profile being applied
  reports,    \* runInit: the per-profile summaries printed so far
  exitErr,    \* runInit: the returned error
  installed,  \* runInit: "bun install" was run in the target
  answer,     \* what the OnConflict callback returned last: (choice, err)
  decision,   \* what resolveConflict returned last: (choice, err)
  raw,        \* parseContentDirs: the string it is called with
  parsed,     \* parseContentDirs: what it returned
  run,        \* which run of the apply loop this is (1 or 2)
  target1,    \* history: target when the first run ended
  tdirs1,     \* history: tdirs when the first run ended
  reports1,   \* history: the summaries the first run printed
  totals,     \* runInitCopy: totalCopied, totalSkipped, allErrors
  stdin,      \* OnConflict of runInit: the lines still to be read
  cbpc,       \* OnConflict of runInit: position ("idle", "prompt",
              \*   "returned")
  cbret,      \* OnConflict of runInit: the choice it returned
  prompts,    \* OnConflict of runInit: how often "Choice: " was printed
  variant     \* which of the two runInit sources the callback is from

rvars == <<names, load, rpc, ri, seen, result, current, visiting, chain,
           calls, rret, rerr>>

cvars == <<callOpts, opts, tree, wi, cpc, cres, cerr, target, tdirs, asked,
           compares, faults, target0, tdirs0, answer, decision>>

ivars == <<flags, trees, pc, resolved, profiles, pi, reports, exitErr,
           installed>>

pvars == <<raw, parsed>>

svars == <<run, target1, tdirs1, reports1>>

uvars == <<totals>>

kvars == <<stdin, cbpc, cbret, prompts, variant>>

ovars == <<pvars, svars, uvars, kvars>>

vars == <<rvars, cvars, ivars, ovars>>

\* ------------------------------------------------------------------------
\* resolver.Resolve and resolver.walkChain
\* ------------------------------------------------------------------------
ResolveEntry(ns, ld) ==
  /\ names = ns
  /\ load = ld
  /\ rpc = "loop"
  /\ ri = 1
  /\ seen = {}
  /\ result = <<>>
  /\ current = EmptyStr
  /\ visiting = {}
  /\ chain = <<>>
  /\ calls = <<>>
  /\ rret = <<>>
  /\ rerr = NoErr

\* for _, name := range names { chain, err := walkChain(name, load)
WalkStart ==
  /\ rpc = "loop"
  /\ ri <= Len(names)
  /\ rpc' = "walk"
  /\ current' = names[ri]
  /\ visiting' = {}
  /\ chain' = <<>>
  /\ calls' = <<>>
  /\ UNCHANGED <<names, load, ri, seen, result, rret, rerr>>
  /\ UNCHANGED <<cvars, ivars, ovars>>

\* the cycle error returned together with the chains gathered so far
WalkCyclePartial ==
  /\ rpc = "walk"
  /\ current # EmptyStr
  /\ current \in visiting
  /\ rpc' = "failed"
  /\ rret' = result
  /\ rerr' = [kind |-> "circular", cycle |-> formatCycle(chain, current)]
  /\ UNCHANGED <<names, load, ri, seen, result, current, visiting, chain,
                 calls>>
  /\ UNCHANGED <<cvars, ivars, ovars>>

\* if visiting[current] { return nil, circular dependency }
WalkCycle ==
  /\ rpc = "walk"
  /\ current # EmptyStr
  /\ current \in visiting
  /\ rpc' = "failed"
  /\ rret' = <<>>
  /\ rerr' = [kind |-> "circular", cycle |-> formatCycle(chain, current)]
  /\ UNCHANGED <<names, load, ri, seen, result, current, visiting, chain,
                 calls>>
  /\ UNCHANGED <<cvars, ivars, ovars>>

\* the loader error reported against the requested name instead of the
\* identifier being loaded
WalkLoadNamesRequest ==
  /\ rpc = "walk"
  /\ current # EmptyStr
  /\ current \notin visiting
  /\ visiting' = visiting \cup {current}
  /\ chain' = Append(chain, current)
  /\ calls' = Append(calls, current)
  /\ IF load[current].err
       THEN /\ rpc' = "failed"
            /\ rret' = <<>>
            /\ rerr' = [kind |-> "resolving", name |-> names[ri],
                        cause |-> "loader"]
            /\ UNCHANGED current
       ELSE /\ current' = TrimSpace(load[current].ext)
            /\ UNCHANGED <<rpc, rret, rerr>>
  /\ UNCHANGED <<names, load, ri, seen, result>>
  /\ UNCHANGED <<cvars, ivars, ovars>>

\* visiting[current] = true; chain = append(chain, current);
\* extends, err := load(current); current = strings.TrimSpace(extends)
WalkLoad ==
  /\ rpc = "walk"
  /\ current # EmptyStr
  /\ current \notin visiting
  /\ visiting' = visiting \cup {current}
  /\ chain' = Append(chain, current)
  /\ calls' = Append(calls, current)
  /\ IF load[current].err
       THEN /\ rpc' = "failed"
            /\ rret' = <<>>
            /\ rerr' = [kind |-> "resolving", name |-> current,
                        cause |-> "loader"]
            /\ UNCHANGED current
       ELSE /\ current' = TrimSpace(load[current].ext)
            /\ UNCHANGED <<rpc, rret, rerr>>
  /\ UNCHANGED <<names, load, ri, seen, result>>
  /\ UNCHANGED <<cvars, ivars, ovars>>

\* each new chain put in front of the result instead of after it
WalkReturnPrepend ==
  /\ rpc = "walk"
  /\ current = EmptyStr
  /\ LET r == appendUnseen(<<>>, seen, reverse(chain))
     IN  /\ result' = r.result \o result
         /\ seen' = r.seen
  /\ ri' = ri + 1
  /\ rpc' = "loop"
  /\ UNCHANGED <<names, load, current, visiting, chain, calls, rret, rerr>>
  /\ UNCHANGED <<cvars, ivars, ovars>>

\* reverse(chain); return chain, nil; and the de-duplicating append of
\* Resolve's loop body
WalkReturn ==
  /\ rpc = "walk"
  /\ current = EmptyStr
  /\ LET r == appendUnseen(result, seen, reverse(chain))
     IN  /\ result' = r.result
         /\ seen' = r.seen
  /\ ri' = ri + 1
  /\ rpc' = "loop"
  /\ UNCHANGED <<names, load, current, visiting, chain, calls, rret, rerr>>
  /\ UNCHANGED <<cvars, ivars, ovars>>

\* return result, nil
ResolveReturn ==
  /\ rpc = "loop"
  /\ ri > Len(names)
  /\ rpc' = "done"
  /\ rret' = result
  /\ UNCHANGED <<names, load, ri, seen, result, current, visiting, chain,
                 calls, rerr>>
  /\ UNCHANGED <<cvars, ivars, ovars>>

\* ------------------------------------------------------------------------
\* copier.CopyProfile
\* ------------------------------------------------------------------------
includeSet == toSet(opts.IncludeDirs)
excludeSet == toSet(opts.ExcludeDirs)

\* strings.SplitN(rel, sep, 2)[0]
topLevel(rel) == rel[1]

\* the test against the recognised directories left out
FilteredOutFiltersOnly(e) ==
  \/ (includeSet # {} /\ topLevel(e.rel) \notin includeSet)
  \/ (excludeSet # {} /\ topLevel(e.rel) \in excludeSet)

\* the exclude test left out
FilteredOutIncludeOnly(e) ==
  \/ topLevel(e.rel) \notin profileDirs
  \/ (includeSet # {} /\ topLevel(e.rel) \notin includeSet)

\* the entry is outside the recognised directories or the --only /
\* --exclude filters
FilteredOut(e) ==
  \/ topLevel(e.rel) \notin profileDirs
  \/ (includeSet # {} /\ topLevel(e.rel) \notin includeSet)
  \/ (excludeSet # {} /\ topLevel(e.rel) \in excludeSet)

\* the entry reaches "src := path; dst := filepath.Join(targetDir, rel)"
Qualifies(e) ==
  /\ e.kind = "file"
  /\ e.rel # <<>>
  /\ ~FilteredOut(e)

\* where WalkDir goes on after the function returned filepath.SkipDir for
\* the directory at index i
AfterSkipDir(i) ==
  LET later == {j \in (i + 1)..Len(tree) : ~IsPrefix(tree[i].rel, tree[j].rel)}
  IN  IF later = {} THEN Len(tree) + 1
      ELSE CHOOSE j \in later : \A k \in later : j <= k

\* the ways the next CopyFile call may end: it may fail while fewer than
\* MaxFaults calls have failed; no call is made under DryRun
OutcomeChoices ==
  IF ~opts.DryRun /\ faults < MaxFaults THEN CopyOutcomes ELSE {"ok"}

\* the copy made even when DryRun is set
copyOrRecordAlways(e, oc) ==
  LET r == CopyFile(target, tdirs, e, oc)
  IN  IF r.err
        THEN [cres |-> [cres EXCEPT !.Errors = Append(@, e.rel)],
              tf |-> r.tf, td |-> r.td,
              faults |-> IF oc = "ok" THEN faults ELSE faults + 1]
        ELSE [cres |-> [cres EXCEPT !.Copied = Append(@, e.rel)],
              tf |-> r.tf, td |-> r.td, faults |-> faults]

\* the "return nil" after recording a failed copy left out: the file is
\* listed as copied as well
copyOrRecordFailedStillCopied(e, oc) ==
  IF opts.DryRun
    THEN [cres |-> [cres EXCEPT !.Copied = Append(@, e.rel)],
          tf |-> target, td |-> tdirs, faults |-> faults]
    ELSE LET r == CopyFile(target, tdirs, e, oc)
         IN  IF r.err
               THEN [cres |-> [cres EXCEPT !.Errors = Append(@, e.rel),
                                           !.Copied = Append(@, e.rel)],
                     tf |-> r.tf, td |-> r.td,
                     faults |-> IF oc = "ok" THEN faults ELSE faults + 1]
               ELSE [cres |-> [cres EXCEPT !.Copied = Append(@, e.rel)],
                     tf |-> r.tf, td |-> r.td, faults |-> faults]

\* if !opts.DryRun { if err := CopyFile(src, dst); err != nil {
\*   result.Errors = append(...); return nil } }
\* result.Copied = append(result.Copied, rel)
copyOrRecord(e, oc) ==
  IF opts.DryRun
    THEN [cres |-> [cres EXCEPT !.Copied = Append(@, e.rel)],
          tf |-> target, td |-> tdirs, faults |-> faults]
    ELSE LET r == CopyFile(target, tdirs, e, oc)
         IN  IF r.err
               THEN [cres |-> [cres EXCEPT !.Errors = Append(@, e.rel)],
                     tf |-> r.tf, td |-> r.td,
                     faults |-> IF oc = "ok" THEN faults ELSE faults + 1]
               ELSE [cres |-> [cres EXCEPT !.Copied = Append(@, e.rel)],
                     tf |-> r.tf, td |-> r.td, faults |-> faults]

\* the force shorthand not normalised: opts.Strategy stays as passed
CopyProfileEnterAsPassed ==
  /\ cpc = "called"
  /\ opts' = callOpts
  /\ cres' = EmptyResult
  /\ cerr' = NilError
  /\ wi' = 1
  /\ asked' = {}
  /\ compares' = 0
  /\ cpc' = "walk"
  /\ target0' = target
  /\ tdirs0' = tdirs
  /\ answer' = NoAnswer
  /\ decision' = NoDecision
  /\ UNCHANGED <<callOpts, tree, target, tdirs, faults>>
  /\ UNCHANGED <<rvars, ivars, ovars>>

\* if opts.Force { opts.Strategy = StrategyOverwrite }; result := &Result{}
CopyProfileEnter ==
  /\ cpc = "called"
  /\ opts' = IF callOpts.Force
               THEN [callOpts EXCEPT !.Strategy = StrategyOverwrite]
               ELSE callOpts
  /\ cres' = EmptyResult
  /\ cerr' = NilError
  /\ wi' = 1
  /\ asked' = {}
  /\ compares' = 0
  /\ cpc' = "walk"
  /\ target0' = target
  /\ tdirs0' = tdirs
  /\ answer' = NoAnswer
  /\ decision' = NoDecision
  /\ UNCHANGED <<callOpts, tree, target, tdirs, faults>>
  /\ UNCHANGED <<rvars, ivars, ovars>>

\* the walk function for an entry that is not copied: a walk error, the
\* profile root, an entry outside the content directories or the filters,
\* or a directory
WalkSkip ==
  /\ cpc = "walk"
  /\ wi <= Len(tree)
  /\ ~Qualifies(tree[wi])
  /\ LET e == tree[wi]
     IN  IF e.kind = "err"
           THEN /\ cres' = [cres EXCEPT !.Errors = Append(@, e.rel)]
                /\ wi' = wi + 1
           ELSE IF e.rel = <<>>
             THEN /\ wi' = wi + 1
                  /\ UNCHANGED cres
           ELSE IF FilteredOut(e)
             THEN /\ wi' = IF e.kind = "dir" THEN AfterSkipDir(wi) ELSE wi + 1
                  /\ UNCHANGED cres
           ELSE /\ wi' = wi + 1
                /\ UNCHANGED cres
  /\ UNCHANGED <<callOpts, opts, tree, cpc, cerr, target, tdirs, asked,
                 compares, faults, target0, tdirs0, answer, decision>>
  /\ UNCHANGED <<rvars, ivars, ovars>>

\* a new file skipped when the strategy is skip
CopyNewUnlessSkip ==
  /\ cpc = "walk"
  /\ wi <= Len(tree)
  /\ Qualifies(tree[wi])
  /\ ~Exists(target, tdirs, tree[wi].rel)
  /\ IF opts.Strategy = StrategySkip
       THEN /\ cres' = [cres EXCEPT !.Skipped = Append(@, tree[wi].rel)]
            /\ UNCHANGED <<target, tdirs, faults>>
       ELSE \E oc \in OutcomeChoices :
              LET r == copyOrRecord(tree[wi], oc)
              IN  /\ cres' = r.cres
                  /\ target' = r.tf
                  /\ tdirs' = r.td
                  /\ faults' = r.faults
  /\ wi' = wi + 1
  /\ UNCHANGED <<callOpts, opts, tree, cpc, cerr, asked, compares, target0,
                 tdirs0, answer, decision>>
  /\ UNCHANGED <<rvars, ivars, ovars>>

\* if !exists { new file: always copy }
CopyNew ==
  /\ cpc = "walk"
  /\ wi <= Len(tree)
  /\ Qualifies(tree[wi])
  /\ ~Exists(target, tdirs, tree[wi].rel)
  /\ \E oc \in OutcomeChoices :
       LET r == copyOrRecord(tree[wi], oc)
       IN  /\ cres' = r.cres
           /\ target' = r.tf
           /\ tdirs' = r.td
           /\ faults' = r.faults
  /\ wi' = wi + 1
  /\ UNCHANGED <<callOpts, opts, tree, cpc, cerr, asked, compares, target0,
                 tdirs0, answer, decision>>
  /\ UNCHANGED <<rvars, ivars, ovars>>

\* overwrite consulting the callback when one is supplied
conflictActionAsks(st, cb) ==
  IF st = StrategyOverwrite THEN (IF cb THEN "ask" ELSE "copy")
  ELSE IF st \in {StrategyMerge, StrategySkip} THEN "skip"
  ELSE IF st = StrategyPrompt THEN (IF cb THEN "ask" ELSE "skip")
  ELSE "skip"

\* merge handled like overwrite
conflictActionMergeCopies(st, cb) ==
  IF st \in {StrategyOverwrite, StrategyMerge} THEN "copy"
  ELSE IF st = StrategySkip THEN "skip"
  ELSE IF st = StrategyPrompt THEN (IF cb THEN "ask" ELSE "skip")
  ELSE "skip"

\* prompt without a callback handled like overwrite
conflictActionNilCopies(st, cb) ==
  IF st = StrategyOverwrite THEN "copy"
  ELSE IF st \in {StrategyMerge, StrategySkip} THEN "skip"
  ELSE IF st = StrategyPrompt THEN (IF cb THEN "ask" ELSE "copy")
  ELSE "skip"

\* a dry run never consulting the callback
conflictActionDryNoAsk(st, cb) ==
  IF st = StrategyOverwrite THEN "copy"
  ELSE IF st \in {StrategyMerge, StrategySkip} THEN "skip"
  ELSE IF st = StrategyPrompt
    THEN (IF cb /\ ~opts.DryRun THEN "ask" ELSE "skip")
  ELSE "skip"

\* the case "switch opts.Strategy" selects for an existing destination:
\* copy, skip, or ask the callback (resolveConflict with cb != nil)
conflictAction(st, cb) ==
  IF st = StrategyOverwrite THEN "copy"
  ELSE IF st \in {StrategyMerge, StrategySkip} THEN "skip"
  ELSE IF st = StrategyPrompt THEN (IF cb THEN "ask" ELSE "skip")
  ELSE "skip"

\* switch opts.Strategy, up to the call of the OnConflict callback
Conflict ==
  /\ cpc = "walk"
  /\ wi <= Len(tree)
  /\ Qualifies(tree[wi])
  /\ Exists(target, tdirs, tree[wi].rel)
  /\ LET e == tree[wi]
         act == conflictAction(opts.Strategy, opts.OnConflict)
     IN  IF act = "copy"
           THEN /\ \E oc \in OutcomeChoices :
                     LET r == copyOrRecord(e, oc)
                     IN  /\ cres' = r.cres
                         /\ target' = r.tf
                         /\ tdirs' = r.td
                         /\ faults' = r.faults
                /\ wi' = wi + 1
                /\ UNCHANGED cpc
           ELSE IF act = "skip"
             THEN /\ cres' = [cres EXCEPT !.Skipped = Append(@, e.rel)]
                  /\ wi' = wi + 1
                  /\ UNCHANGED <<cpc, target, tdirs, faults>>
           ELSE /\ cpc' = "conflict"
                /\ UNCHANGED <<cres, wi, target, tdirs, faults>>
  /\ UNCHANGED <<callOpts, opts, tree, cerr, asked, compares, target0,
                 tdirs0, answer, decision>>
  /\ UNCHANGED <<rvars, ivars, ovars>>

\* the loop left out: whatever the callback answers is returned
loopPassReturnsCompare(choice, err) ==
  IF err THEN [again |-> FALSE, choice |-> choice, err |-> errCallback]
  ELSE IF choice = ChoiceCancel
    THEN [again |-> FALSE, choice |-> choice, err |-> errCancelled]
  ELSE [again |-> FALSE, choice |-> choice, err |-> NilError]

\* the choice tested before the error: Cancel cancels even with an error
loopPassCancelFirst(choice, err) ==
  IF choice = ChoiceCancel
    THEN [again |-> FALSE, choice |-> choice, err |-> errCancelled]
  ELSE IF err THEN [again |-> FALSE, choice |-> choice, err |-> errCallback]
  ELSE IF choice # ChoiceCompare
    THEN [again |-> FALSE, choice |-> choice, err |-> NilError]
  ELSE [again |-> TRUE, choice |-> choice, err |-> NilError]

\* one pass of the for loop of resolveConflict with the callback answering
\* (choice, err): the (choice, err) it returns, or again = TRUE to loop
loopPass(choice, err) ==
  IF err THEN [again |-> FALSE, choice |-> choice, err |-> errCallback]
  ELSE IF choice = ChoiceCancel
    THEN [again |-> FALSE, choice |-> choice, err |-> errCancelled]
  ELSE IF choice # ChoiceCompare
    THEN [again |-> FALSE, choice |-> choice, err |-> NilError]
  ELSE [again |-> TRUE, choice |-> choice, err |-> NilError]

\* the cancellation error recorded like any other callback error
afterDecisionRecordsCancel(d) ==
  IF d.err # NilError THEN "error"
  ELSE IF d.choice = ChoiceOverwrite THEN "copy"
  ELSE IF d.choice = ChoiceSkip THEN "skip"
  ELSE IF d.choice = ChoiceCancel THEN "error"
  ELSE "none"

\* the Skip case of "switch choice" recording nothing
afterDecisionSkipUnrecorded(d) ==
  IF d.err # NilError
    THEN (IF d.err = errCancelled THEN "cancel" ELSE "error")
  ELSE IF d.choice = ChoiceOverwrite THEN "copy"
  ELSE IF d.choice = ChoiceCancel THEN "cancel"
  ELSE "none"

\* what CopyProfile does with the (choice, err) of resolveConflict:
\* "cancel" (return err), "error" (record and go on), "copy", "skip", or
\* "none" when no case of "switch choice" matches
afterDecision(d) ==
  IF d.err # NilError
    THEN (IF d.err = errCancelled THEN "cancel" ELSE "error")
  ELSE IF d.choice = ChoiceOverwrite THEN "copy"
  ELSE IF d.choice = ChoiceSkip THEN "skip"
  ELSE IF d.choice = ChoiceCancel THEN "cancel"
  ELSE "none"

\* one invocation of the OnConflict callback by resolveConflict, the
\* callback answering (choice, err), and what CopyProfile does when
\* resolveConflict returns
resolveConflict(choice, err, oc) ==
  /\ cpc = "conflict"
  /\ loopPass(choice, err).again => compares < MaxCompare
  /\ asked' = asked \cup {tree[wi].rel}
  /\ answer' = [choice |-> choice, err |-> err]
  /\ LET e == tree[wi]
         p == loopPass(choice, err)
         d == [choice |-> p.choice, err |-> p.err]
         act == afterDecision(d)
     IN  IF p.again
           THEN /\ compares' = compares + 1
                /\ UNCHANGED <<cres, wi, cpc, cerr, target, tdirs, faults,
                               decision>>
           ELSE /\ decision' = d
                /\ compares' = 0
                /\ IF act = "cancel"
                     THEN /\ cpc' = "returned"
                          /\ cerr' = errCancelled
                          /\ UNCHANGED <<cres, wi, target, tdirs, faults>>
                   ELSE IF act = "error"
                     THEN /\ cres' = [cres EXCEPT !.Errors = Append(@, e.rel)]
                          /\ wi' = wi + 1
                          /\ cpc' = "walk"
                          /\ UNCHANGED <<cerr, target, tdirs, faults>>
                   ELSE IF act = "copy"
                     THEN /\ LET r == copyOrRecord(e, oc)
                             IN  /\ cres' = r.cres
                                 /\ target' = r.tf
                                 /\ tdirs' = r.td
                                 /\ faults' = r.faults
                          /\ wi' = wi + 1
                          /\ cpc' = "walk"
                          /\ UNCHANGED cerr
                   ELSE IF act = "skip"
                     THEN /\ cres' = [cres EXCEPT !.Skipped = Append(@, e.rel)]
                          /\ wi' = wi + 1
                          /\ cpc' = "walk"
                          /\ UNCHANGED <<cerr, target, tdirs, faults>>
                   ELSE /\ wi' = wi + 1
                        /\ cpc' = "walk"
                        /\ UNCHANGED <<cres, cerr, target, tdirs, faults>>
  /\ UNCHANGED <<callOpts, opts, tree, target0, tdirs0>>
  /\ UNCHANGED <<rvars, ivars, ovars>>

\* a callback that may answer anything
OnConflictAny ==
  \E choice \in Choices, err \in BOOLEAN, oc \in OutcomeChoices :
    resolveConflict(choice, err, oc)

\* WalkDir has presented every entry: return result, err
CopyProfileReturn ==
  /\ cpc = "walk"
  /\ wi > Len(tree)
  /\ cpc' = "returned"
  /\ cerr' = NilError
  /\ UNCHANGED <<callOpts, opts, tree, wi, cres, target, tdirs, asked,
                 compares, faults, target0, tdirs0, answer, decision>>
  /\ UNCHANGED <<rvars, ivars, ovars>>

\* ------------------------------------------------------------------------
\* cli.runInit
\* ------------------------------------------------------------------------
Exit(err) ==
  /\ pc' = "exit"
  /\ exitErr' = err

\* the strategy switch and the Options literal of runInit
initOptions(fl, inc, exc) ==
  [Strategy |-> IF fl.force THEN StrategyOverwrite
                ELSE IF fl.merge THEN StrategyMerge
                ELSE StrategyPrompt,
   DryRun |-> fl.dryRun,
   Force |-> FALSE,
   OnConflict |-> TRUE,
   IncludeDirs |-> inc,
   ExcludeDirs |-> exc]

\* the --only / --exclude exclusivity test left out
RunInitValidateBothAllowed ==
  /\ pc = "start"
  /\ IF flags.force /\ flags.merge
       THEN /\ Exit([kind |-> "force-merge"])
            /\ UNCHANGED rpc
       ELSE IF parseContentDirs(flags.onlyRaw).err
         THEN /\ Exit([kind |-> "only",
                       bad |-> parseContentDirs(flags.onlyRaw).bad])
              /\ UNCHANGED rpc
       ELSE IF parseContentDirs(flags.excludeRaw).err
         THEN /\ Exit([kind |-> "exclude",
                       bad |-> parseContentDirs(flags.excludeRaw).bad])
              /\ UNCHANGED rpc
       ELSE /\ pc' = "resolving"
            /\ rpc' = "loop"
            /\ UNCHANGED exitErr
  /\ UNCHANGED <<names, load, ri, seen, result, current, visiting, chain,
                 calls, rret, rerr>>
  /\ UNCHANGED <<flags, trees, resolved, profiles, pi, reports, installed>>
  /\ UNCHANGED <<cvars, ovars>>

\* flag validation and filter parsing, up to the call of resolver.Resolve
RunInitValidate ==
  /\ pc = "start"
  /\ IF flags.force /\ flags.merge
       THEN /\ Exit([kind |-> "force-merge"])
            /\ UNCHANGED rpc
       ELSE IF flags.onlyRaw # <<>> /\ flags.excludeRaw # <<>>
         THEN /\ Exit([kind |-> "only-exclude"])
              /\ UNCHANGED rpc
       ELSE IF parseContentDirs(flags.onlyRaw).err
         THEN /\ Exit([kind |-> "only",
                       bad |-> parseContentDirs(flags.onlyRaw).bad])
              /\ UNCHANGED rpc
       ELSE IF parseContentDirs(flags.excludeRaw).err
         THEN /\ Exit([kind |-> "exclude",
                       bad |-> parseContentDirs(flags.excludeRaw).bad])
              /\ UNCHANGED rpc
       ELSE /\ pc' = "resolving"
            /\ rpc' = "loop"
            /\ UNCHANGED exitErr
  /\ UNCHANGED <<names, load, ri, seen, result, current, visiting, chain,
                 calls, rret, rerr>>
  /\ UNCHANGED <<flags, trees, resolved, profiles, pi, reports, installed>>
  /\ UNCHANGED <<cvars, ovars>>

\* resolution failed, but the requested names are applied all the same
RunInitResolvedFallback ==
  /\ pc = "resolving"
  /\ rpc \in {"done", "failed"}
  /\ resolved' = IF rpc = "failed" THEN names ELSE rret
  /\ pc' = "lookup"
  /\ UNCHANGED <<flags, trees, profiles, pi, reports, exitErr, installed>>
  /\ UNCHANGED <<rvars, cvars, ovars>>

\* resolved, err := resolver.Resolve(...); if err != nil { return ... }
RunInitResolved ==
  /\ pc = "resolving"
  /\ rpc \in {"done", "failed"}
  /\ IF rpc = "failed"
       THEN /\ Exit([kind |-> "resolving", cause |-> rerr])
            /\ UNCHANGED resolved
       ELSE /\ resolved' = rret
            /\ pc' = "lookup"
            /\ UNCHANGED exitErr
  /\ UNCHANGED <<flags, trees, profiles, pi, reports, installed>>
  /\ UNCHANGED <<rvars, cvars, ovars>>

\* "Load every resolved profile up-front": one s.Get(name) of the loop;
\* the store may fail to load a profile that it loaded during resolution
RunInitLookup ==
  /\ pc = "lookup"
  /\ Len(profiles) < Len(resolved)
  /\ LET name == resolved[Len(profiles) + 1]
     IN  \E getErr \in BOOLEAN :
           IF getErr \/ load[name].err
             THEN /\ Exit([kind |-> "profile", name |-> name])
                  /\ UNCHANGED profiles
             ELSE /\ profiles' = Append(profiles, name)
                  /\ UNCHANGED <<pc, exitErr>>
  /\ UNCHANGED <<flags, trees, resolved, pi, reports, installed>>
  /\ UNCHANGED <<rvars, cvars, ovars>>

\* the profiles applied from the last to the first
RunInitApplyReversed ==
  /\ pc \in {"lookup", "apply"}
  /\ Len(profiles) = Len(resolved)
  /\ pi <= Len(profiles)
  /\ pc' = "copying"
  /\ callOpts' = initOptions(flags, parseContentDirs(flags.onlyRaw).dirs,
                             parseContentDirs(flags.excludeRaw).dirs)
  /\ tree' = trees[profiles[Len(profiles) + 1 - pi]]
  /\ cpc' = "called"
  /\ UNCHANGED <<opts, wi, cres, cerr, target, tdirs, asked, compares,
                 faults, target0, tdirs0, answer, decision>>
  /\ UNCHANGED <<flags, trees, resolved, profiles, pi, reports, exitErr,
                 installed>>
  /\ UNCHANGED <<rvars, ovars>>

\* "Apply each profile in order": the call of copier.CopyProfile for the
\* next profile, with the options built from the flags
RunInitApply ==
  /\ pc \in {"lookup", "apply"}
  /\ Len(profiles) = Len(resolved)
  /\ pi <= Len(profiles)
  /\ pc' = "copying"
  /\ callOpts' = initOptions(flags, parseContentDirs(flags.onlyRaw).dirs,
                             parseContentDirs(flags.excludeRaw).dirs)
  /\ tree' = trees[profiles[pi]]
  /\ cpc' = "called"
  /\ UNCHANGED <<opts, wi, cres, cerr, target, tdirs, asked, compares,
                 faults, target0, tdirs0, answer, decision>>
  /\ UNCHANGED <<flags, trees, resolved, profiles, pi, reports, exitErr,
                 installed>>
  /\ UNCHANGED <<rvars, ovars>>

\* CopyProfile has returned: return its error, or print the summary and
\* go on with the next profile
RunInitCopied ==
  /\ pc = "copying"
  /\ cpc = "returned"
  /\ IF cerr # NilError
       THEN /\ Exit([kind |-> "copying", name |-> profiles[pi],
                     cause |-> cerr])
            /\ UNCHANGED <<reports, pi>>
       ELSE /\ reports' = Append(reports, [name |-> profiles[pi],
                                           result |-> cres])
            /\ pi' = pi + 1
            /\ pc' = "apply"
            /\ UNCHANGED exitErr
  /\ UNCHANGED <<flags, trees, resolved, profiles, installed>>
  /\ UNCHANGED <<rvars, cvars, ovars>>

\* copier.DetectPluginDeps: a .ts file under plugins/ in the target
DetectPluginDeps(tf) == tf[<<"plugins", "p.ts">>] # NoFile

\* after the last profile: the plugin dependency prompt, "bun install"
\* when the answer is y and this is no dry run, and the return
RunInitFinish ==
  /\ pc \in {"lookup", "apply"}
  /\ Len(profiles) = Len(resolved)
  /\ pi > Len(profiles)
  /\ \E answerYes \in BOOLEAN, bunFails \in BOOLEAN :
       IF DetectPluginDeps(target) /\ answerYes /\ ~flags.dryRun
         THEN /\ installed' = TRUE
              /\ Exit(IF bunFails THEN [kind |-> "bun"] ELSE NoErr)
         ELSE /\ Exit(NoErr)
              /\ UNCHANGED installed
  /\ UNCHANGED <<flags, trees, resolved, profiles, pi, reports>>
  /\ UNCHANGED <<rvars, cvars, ovars>>

\* the OnConflict closure of runInit: o, s, c, a or end of input
OnConflictInit ==
  \E choice \in {ChoiceOverwrite, ChoiceSkip, ChoiceCompare, ChoiceCancel},
     oc \in OutcomeChoices :
    resolveConflict(choice, FALSE, oc)

\* ------------------------------------------------------------------------
\* Resolve run on every list of requested names and every loader
\* ------------------------------------------------------------------------
\* no CopyProfile call is under way
CopyIdle ==
  /\ callOpts = CHOOSE o \in AllOptions : TRUE
  /\ opts = callOpts
  /\ tree = <<>>
  /\ wi = 1
  /\ cpc = "idle"
  /\ cres = EmptyResult
  /\ cerr = NilError
  /\ target = [r \in DestRels |-> NoFile]
  /\ tdirs = {}
  /\ asked = {}
  /\ compares = 0
  /\ faults = 0
  /\ target0 = target
  /\ tdirs0 = tdirs
  /\ answer = NoAnswer
  /\ decision = NoDecision

\* the init command is not running
InitIdle ==
  /\ flags = [force |-> FALSE, merge |-> FALSE, dryRun |-> FALSE,
              onlyRaw |-> <<>>, excludeRaw |-> <<>>]
  /\ trees = [n \in Names |-> <<>>]
  /\ pc = "idle"
  /\ resolved = <<>>
  /\ profiles = <<>>
  /\ pi = 1
  /\ reports = <<>>
  /\ exitErr = NoErr
  /\ installed = FALSE

\* parseContentDirs has not been called, and this is the first run
NoParse == [ret |-> ParseOk(<<>>), called |-> FALSE]

\* runInitCopy has counted nothing yet
ZeroTotals == [copied |-> 0, skipped |-> 0, errors |-> <<>>]

\* the wizard's copy step is not running
TuiIdle == totals = ZeroTotals

\* the OnConflict closure of runInit is not running
PromptIdle ==
  /\ stdin = <<>>
  /\ cbpc = "idle"
  /\ cbret = "none"
  /\ prompts = 0
  /\ variant = "scanner"

OtherIdle ==
  /\ raw = <<>>
  /\ parsed = NoParse
  /\ run = 1
  /\ target1 = [r \in DestRels |-> NoFile]
  /\ tdirs1 = {}
  /\ reports1 = <<>>
  /\ TuiIdle
  /\ PromptIdle

InitResolve ==
  /\ \E ns \in SeqOfUpTo(Names, MaxReq), ld \in Loaders : ResolveEntry(ns, ld)
  /\ CopyIdle
  /\ InitIdle
  /\ OtherIdle

NextResolve ==
  \/ WalkStart
  \/ WalkCycle
  \/ WalkLoad
  \/ WalkReturn
  \/ ResolveReturn

SpecResolve == InitResolve /\ [][NextResolve]_vars

\* ------------------------------------------------------------------------
\* CopyProfile called once with any options, on any of the profile trees,
\* into any of the targets
\* ------------------------------------------------------------------------
\* no Resolve call is under way
ResolveIdle ==
  /\ names = <<>>
  /\ load = [n \in Names |-> LoadErr]
  /\ rpc = "idle"
  /\ ri = 1
  /\ seen = {}
  /\ result = <<>>
  /\ current = EmptyStr
  /\ visiting = {}
  /\ chain = <<>>
  /\ calls = <<>>
  /\ rret = <<>>
  /\ rerr = NoErr

\* the targets: files with their parent directories, and possibly a
\* directory named commands
TargetStates ==
  {[tf |-> tf, td |-> DirsOf(tf) \cup extra] :
     tf \in TargetFiles, extra \in {{}, {<<"commands">>}}}

InitCopy ==
  /\ ResolveIdle
  /\ InitIdle
  /\ \E o \in AllOptions, tr \in Trees("new"), ts \in TargetStates :
       /\ ts.tf[<<"commands">>] # NoFile => <<"commands">> \notin ts.td
       /\ callOpts = o
       /\ opts = o
       /\ tree = tr
       /\ wi = 1
       /\ cpc = "called"
       /\ cres = EmptyResult
       /\ cerr = NilError
       /\ target = ts.tf
       /\ tdirs = ts.td
       /\ asked = {}
       /\ compares = 0
       /\ faults = 0
       /\ target0 = ts.tf
       /\ tdirs0 = ts.td
  /\ answer = NoAnswer
  /\ decision = NoDecision
  /\ OtherIdle

NextCopy ==
  \/ CopyProfileEnter
  \/ WalkSkip
  \/ CopyNew
  \/ Conflict
  \/ OnConflictAny
  \/ CopyProfileReturn

SpecCopy == InitCopy /\ [][NextCopy]_vars

\* ------------------------------------------------------------------------
\* CopyProfile called with a callback that answers with one of the four
\* declared choices, with or without an error
\* ------------------------------------------------------------------------
DeclaredChoices ==
  {ChoiceOverwrite, ChoiceSkip, ChoiceCompare, ChoiceCancel}

OnConflictDeclared ==
  \E choice \in DeclaredChoices, err \in BOOLEAN, oc \in OutcomeChoices :
    resolveConflict(choice, err, oc)

NextCopyDeclared ==
  \/ CopyProfileEnter
  \/ WalkSkip
  \/ CopyNew
  \/ Conflict
  \/ OnConflictDeclared
  \/ CopyProfileReturn

SpecCopyDeclared == InitCopy /\ [][NextCopyDeclared]_vars

\* ------------------------------------------------------------------------
\* parseContentDirs called on every string of up to MaxRaw characters
\* ------------------------------------------------------------------------
RawChars == {",", Space, "agents", "commands", "skills", "plugins", "bogus"}

InitParse ==
  /\ ResolveIdle
  /\ CopyIdle
  /\ InitIdle
  /\ raw \in SeqOfUpTo(RawChars, MaxRaw)
  /\ parsed = NoParse
  /\ run = 1
  /\ target1 = [r \in DestRels |-> NoFile]
  /\ tdirs1 = {}
  /\ reports1 = <<>>
  /\ TuiIdle
  /\ PromptIdle

\* includeDirs, err := parseContentDirs(onlyRaw)
ParseCall ==
  /\ ~parsed.called
  /\ parsed' = [ret |-> parseContentDirs(raw), called |-> TRUE]
  /\ UNCHANGED <<raw, svars, uvars, kvars>>
  /\ UNCHANGED <<rvars, cvars, ivars>>

NextParse == ParseCall

SpecParse == InitParse /\ [][NextParse]_vars

\* ------------------------------------------------------------------------
\* The init command run on a store of three profiles
\* ------------------------------------------------------------------------
\* the extends fields of the store: a chain c -> b -> a, a cycle a <-> b,
\* a missing parent, and three independent profiles
StoreLoaders ==
  { [n \in Names |-> CASE n = <<"a">> -> LoadOk(EmptyStr)
                      [] n = <<"b">> -> LoadOk(<<"a">>)
                      [] n = <<"c">> -> LoadOk(<<Space, "b">>)],
    [n \in Names |-> CASE n = <<"a">> -> LoadOk(<<"b">>)
                      [] n = <<"b">> -> LoadOk(<<"a">>)
                      [] n = <<"c">> -> LoadOk(EmptyStr)],
    [n \in Names |-> CASE n = <<"a">> -> LoadOk(EmptyStr)
                      [] n = <<"b">> -> LoadErr
                      [] n = <<"c">> -> LoadOk(<<"b">>)],
    [n \in Names |-> LoadOk(EmptyStr)] }

StoreTrees ==
  [n \in Names |-> CASE n = <<"a">> -> TreeAgents("a")
                    [] n = <<"b">> -> TreeFull("b")
                    [] n = <<"c">> -> TreeLooseFile("c")]

\* values of --only and --exclude
RawFilters ==
  { <<>>, <<Space>>, <<"agents">>, <<"bogus">>,
    <<Space, "plugins", ",", ",", "skills", Space>> }

\* the target before the command: empty, or two files already there
InitTargets ==
  { [r \in DestRels |-> NoFile],
    [r \in DestRels |->
       IF r \in {<<"agents", "x.md">>, <<"plugins", "p.ts">>}
         THEN OldFile ELSE NoFile] }

InitInit ==
  /\ \E ns \in SeqOfUpTo(Names, MaxProfiles), ld \in StoreLoaders :
       /\ names = ns
       /\ load = ld
  /\ rpc = "idle"
  /\ ri = 1
  /\ seen = {}
  /\ result = <<>>
  /\ current = EmptyStr
  /\ visiting = {}
  /\ chain = <<>>
  /\ calls = <<>>
  /\ rret = <<>>
  /\ rerr = NoErr
  /\ \E tf \in InitTargets :
       /\ target = tf
       /\ tdirs = DirsOf(tf)
       /\ target0 = tf
       /\ tdirs0 = DirsOf(tf)
  /\ callOpts = CHOOSE o \in AllOptions : TRUE
  /\ opts = callOpts
  /\ tree = <<>>
  /\ wi = 1
  /\ cpc = "idle"
  /\ cres = EmptyResult
  /\ cerr = NilError
  /\ asked = {}
  /\ compares = 0
  /\ faults = 0
  /\ answer = NoAnswer
  /\ decision = NoDecision
  /\ OtherIdle
  /\ \E fo \in BOOLEAN, me \in BOOLEAN, dr \in BOOLEAN,
        only \in RawFilters, excl \in RawFilters :
       flags = [force |-> fo, merge |-> me, dryRun |-> dr,
                onlyRaw |-> only, excludeRaw |-> excl]
  /\ trees = StoreTrees
  /\ pc = "start"
  /\ resolved = <<>>
  /\ profiles = <<>>
  /\ pi = 1
  /\ reports = <<>>
  /\ exitErr = NoErr
  /\ installed = FALSE

NextInit ==
  \/ RunInitValidate
  \/ WalkStart
  \/ WalkCycle
  \/ WalkLoad
  \/ WalkReturn
  \/ ResolveReturn
  \/ RunInitResolved
  \/ RunInitLookup
  \/ RunInitApply
  \/ CopyProfileEnter
  \/ WalkSkip
  \/ CopyNew
  \/ Conflict
  \/ OnConflictInit
  \/ CopyProfileReturn
  \/ RunInitCopied
  \/ RunInitFinish

SpecInit == InitInit /\ [][NextInit]_vars

\* ------------------------------------------------------------------------
\* The apply loop of the init command run twice with --force, for the same
\* resolved chain and the same target
\* ------------------------------------------------------------------------
\* the chains Resolve can return over the store: no name twice
ResolvedChains ==
  {ch \in SeqOfUpTo(Names, Cardinality(Names)) :
     /\ ch # <<>>
     /\ \A i, j \in DOMAIN ch : ch[i] = ch[j] => i = j}

InitTwice ==
  /\ ResolveIdle
  /\ \E tf \in InitTargets :
       /\ target = tf
       /\ tdirs = DirsOf(tf)
       /\ target0 = tf
       /\ tdirs0 = DirsOf(tf)
  /\ callOpts = CHOOSE o \in AllOptions : TRUE
  /\ opts = callOpts
  /\ tree = <<>>
  /\ wi = 1
  /\ cpc = "idle"
  /\ cres = EmptyResult
  /\ cerr = NilError
  /\ asked = {}
  /\ compares = 0
  /\ faults = 0
  /\ answer = NoAnswer
  /\ decision = NoDecision
  /\ \E dr \in BOOLEAN, only \in {<<>>, <<"agents", ",", "plugins">>} :
       flags = [force |-> TRUE, merge |-> FALSE, dryRun |-> dr,
                onlyRaw |-> only, excludeRaw |-> <<>>]
  /\ trees = StoreTrees
  /\ pc = "apply"
  /\ \E ch \in ResolvedChains :
       /\ resolved = ch
       /\ profiles = ch
  /\ pi = 1
  /\ reports = <<>>
  /\ exitErr = NoErr
  /\ installed = FALSE
  /\ raw = <<>>
  /\ parsed = NoParse
  /\ run = 1
  /\ target1 = target
  /\ tdirs1 = tdirs
  /\ reports1 = <<>>
  /\ TuiIdle
  /\ PromptIdle

\* the command given a second time: the apply loop starts again over the
\* target the first run left
RunAgain ==
  /\ pc = "exit"
  /\ run = 1
  /\ run' = 2
  /\ target1' = target
  /\ tdirs1' = tdirs
  /\ reports1' = reports
  /\ pc' = "apply"
  /\ pi' = 1
  /\ reports' = <<>>
  /\ exitErr' = NoErr
  /\ installed' = FALSE
  /\ UNCHANGED <<flags, trees, resolved, profiles>>
  /\ UNCHANGED <<rvars, cvars, pvars, uvars, kvars>>

NextTwice ==
  \/ RunInitApply
  \/ CopyProfileEnter
  \/ WalkSkip
  \/ CopyNew
  \/ Conflict
  \/ CopyProfileReturn
  \/ RunInitCopied
  \/ RunInitFinish
  \/ RunAgain

SpecTwice == InitTwice /\ [][NextTwice]_vars

\* ------------------------------------------------------------------------
\* The init wizard of the TUI: the dry-run preview of updateInitDir, the
\* confirmation of updateInitPreview, and the copy step runInitCopy
\* ------------------------------------------------------------------------
\* copier.Options{Strategy: copier.StrategyOverwrite, DryRun: dry}
tuiOptions(dry) ==
  [Strategy |-> StrategyOverwrite,
   DryRun |-> dry,
   Force |-> FALSE,
   OnConflict |-> FALSE,
   IncludeDirs |-> <<>>,
   ExcludeDirs |-> <<>>]

\* an entry of allErrors: "name: err" for a failed store.Get, or an entry
\* of a profile's result.Errors
GetFailure(name) == [get |-> TRUE, text |-> name]
CopyFailure(rel) == [get |-> FALSE, text |-> rel]

InitTui ==
  /\ ResolveIdle
  /\ \E tf \in InitTargets :
       /\ target = tf
       /\ tdirs = DirsOf(tf)
       /\ target0 = tf
       /\ tdirs0 = DirsOf(tf)
  /\ callOpts = CHOOSE o \in AllOptions : TRUE
  /\ opts = callOpts
  /\ tree = <<>>
  /\ wi = 1
  /\ cpc = "idle"
  /\ cres = EmptyResult
  /\ cerr = NilError
  /\ asked = {}
  /\ compares = 0
  /\ faults = 0
  /\ answer = NoAnswer
  /\ decision = NoDecision
  /\ flags = [force |-> FALSE, merge |-> FALSE, dryRun |-> FALSE,
              onlyRaw |-> <<>>, excludeRaw |-> <<>>]
  /\ trees = StoreTrees
  /\ pc = "preview"
  /\ \E ch \in ResolvedChains : resolved = ch
  /\ profiles = <<>>
  /\ pi = 1
  /\ reports = <<>>
  /\ exitErr = NoErr
  /\ installed = FALSE
  /\ OtherIdle

\* updateInitDir, "Dry-run to preview files": store.Get of the next name;
\* on an error the name is passed over, else CopyProfile is called
TuiPreviewGet ==
  /\ pc = "preview"
  /\ pi <= Len(resolved)
  /\ \E getErr \in BOOLEAN :
       IF getErr
         THEN /\ pi' = pi + 1
              /\ UNCHANGED <<pc, cvars>>
         ELSE /\ pc' = "previewing"
              /\ callOpts' = tuiOptions(TRUE)
              /\ tree' = trees[resolved[pi]]
              /\ cpc' = "called"
              /\ UNCHANGED <<pi, opts, wi, cres, cerr, target, tdirs, asked,
                             compares, faults, target0, tdirs0, answer,
                             decision>>
  /\ UNCHANGED <<flags, trees, resolved, profiles, reports, exitErr,
                 installed>>
  /\ UNCHANGED <<rvars, ovars>>

\* the preview lines of one profile: its name and its would-be copied files
TuiPreviewed ==
  /\ pc = "previewing"
  /\ cpc = "returned"
  /\ reports' = Append(reports, [name |-> resolved[pi], result |-> cres])
  /\ pi' = pi + 1
  /\ pc' = "preview"
  /\ UNCHANGED <<flags, trees, resolved, profiles, exitErr, installed>>
  /\ UNCHANGED <<rvars, cvars, ovars>>

\* wiz.step = initStepPreview
TuiPreviewDone ==
  /\ pc = "preview"
  /\ pi > Len(resolved)
  /\ pc' = "confirm"
  /\ UNCHANGED <<flags, trees, resolved, profiles, pi, reports, exitErr,
                 installed>>
  /\ UNCHANGED <<rvars, cvars, ovars>>

\* updateInitPreview: enter or y runs the copy, n or esc leaves the wizard
TuiConfirm ==
  /\ pc = "confirm"
  /\ \E yes \in BOOLEAN :
       IF yes
         THEN /\ pc' = "copy"
              /\ pi' = 1
              /\ totals' = ZeroTotals
         ELSE /\ pc' = "menu"
              /\ UNCHANGED <<pi, totals>>
  /\ UNCHANGED <<flags, trees, resolved, profiles, reports, exitErr,
                 installed>>
  /\ UNCHANGED <<rvars, cvars, pvars, svars, kvars>>

\* runInitCopy: store.Get of the next name; on an error "name: err" is
\* appended to allErrors and the loop continues, else CopyProfile is called
\* (profiles records the names handed to CopyProfile)
TuiCopyGet ==
  /\ pc = "copy"
  /\ pi <= Len(resolved)
  /\ \E getErr \in BOOLEAN :
       IF getErr
         THEN /\ totals' = [totals EXCEPT
                              !.errors = Append(@, GetFailure(resolved[pi]))]
              /\ pi' = pi + 1
              /\ UNCHANGED <<pc, profiles, cvars>>
         ELSE /\ pc' = "tuiCopying"
              /\ profiles' = Append(profiles, resolved[pi])
              /\ callOpts' = tuiOptions(FALSE)
              /\ tree' = trees[resolved[pi]]
              /\ cpc' = "called"
              /\ UNCHANGED <<pi, totals, opts, wi, cres, cerr, target, tdirs,
                             asked, compares, faults, target0, tdirs0, answer,
                             decision>>
  /\ UNCHANGED <<flags, trees, resolved, reports, exitErr, installed>>
  /\ UNCHANGED <<rvars, pvars, svars, kvars>>

\* CopyProfile has returned: initCopyErrMsg for its error, else the counts
\* and the errors of its result are added to the totals
TuiCopied ==
  /\ pc = "tuiCopying"
  /\ cpc = "returned"
  /\ IF cerr # NilError
       THEN /\ pc' = "failed"
            /\ exitErr' = [kind |-> "copying", name |-> resolved[pi],
                           cause |-> cerr]
            /\ UNCHANGED <<pi, totals>>
       ELSE /\ totals' =
                 [copied |-> totals.copied + Len(cres.Copied),
                  skipped |-> totals.skipped + Len(cres.Skipped),
                  errors |-> totals.errors \o
                             [i \in DOMAIN cres.Errors |->
                                CopyFailure(cres.Errors[i])]]
            /\ pi' = pi + 1
            /\ pc' = "copy"
            /\ UNCHANGED exitErr
  /\ UNCHANGED <<flags, trees, resolved, profiles, reports, installed>>
  /\ UNCHANGED <<rvars, cvars, pvars, svars, kvars>>

\* return initCopyDoneMsg{copied, skipped, errors}
TuiCopyDone ==
  /\ pc = "copy"
  /\ pi > Len(resolved)
  /\ pc' = "done"
  /\ UNCHANGED <<flags, trees, resolved, profiles, pi, reports, exitErr,
                 installed>>
  /\ UNCHANGED <<rvars, cvars, ovars>>

NextTui ==
  \/ TuiPreviewGet
  \/ TuiPreviewed
  \/ TuiPreviewDone
  \/ TuiConfirm
  \/ TuiCopyGet
  \/ CopyProfileEnter
  \/ WalkSkip
  \/ CopyNew
  \/ Conflict
  \/ CopyProfileReturn
  \/ TuiCopied
  \/ TuiCopyDone

SpecTui == InitTui /\ [][NextTui]_vars

\* ------------------------------------------------------------------------
\* The apply loop of the init command run with --dry-run and then, for the
\* same resolved chain and the same target, without it
\* ------------------------------------------------------------------------
InitPreview ==
  /\ ResolveIdle
  /\ \E tf \in InitTargets :
       /\ target = tf
       /\ tdirs = DirsOf(tf)
       /\ target0 = tf
       /\ tdirs0 = DirsOf(tf)
  /\ callOpts = CHOOSE o \in AllOptions : TRUE
  /\ opts = callOpts
  /\ tree = <<>>
  /\ wi = 1
  /\ cpc = "idle"
  /\ cres = EmptyResult
  /\ cerr = NilError
  /\ asked = {}
  /\ compares = 0
  /\ faults = 0
  /\ answer = NoAnswer
  /\ decision = NoDecision
  /\ \E fo \in BOOLEAN, only \in {<<>>, <<"agents", ",", "plugins">>} :
       flags = [force |-> fo, merge |-> ~fo, dryRun |-> TRUE,
                onlyRaw |-> only, excludeRaw |-> <<>>]
  /\ trees = StoreTrees
  /\ pc = "apply"
  /\ \E ch \in ResolvedChains :
       /\ resolved = ch
       /\ profiles = ch
  /\ pi = 1
  /\ reports = <<>>
  /\ exitErr = NoErr
  /\ installed = FALSE
  /\ raw = <<>>
  /\ parsed = NoParse
  /\ run = 1
  /\ target1 = target
  /\ tdirs1 = tdirs
  /\ reports1 = <<>>
  /\ TuiIdle
  /\ PromptIdle

\* the command given again without --dry-run: the apply loop starts again
\* over the target the dry run left
RunForReal ==
  /\ pc = "exit"
  /\ run = 1
  /\ run' = 2
  /\ target1' = target
  /\ tdirs1' = tdirs
  /\ reports1' = reports
  /\ flags' = [flags EXCEPT !.dryRun = FALSE]
  /\ pc' = "apply"
  /\ pi' = 1
  /\ reports' = <<>>
  /\ exitErr' = NoErr
  /\ installed' = FALSE
  /\ UNCHANGED <<trees, resolved, profiles>>
  /\ UNCHANGED <<rvars, cvars, pvars, uvars, kvars>>

NextPreview ==
  \/ RunInitApply
  \/ CopyProfileEnter
  \/ WalkSkip
  \/ CopyNew
  \/ Conflict
  \/ CopyProfileReturn
  \/ RunInitCopied
  \/ RunInitFinish
  \/ RunForReal

SpecPreview == InitPreview /\ [][NextPreview]_vars

\* ------------------------------------------------------------------------
\* The OnConflict closure of runInit reading its answer from standard
\* input, in the two versions of the init command: one reads lines with a
\* bufio.Scanner, the other with reader.ReadString('\n')
\* ------------------------------------------------------------------------
\* strings.ToLower on the characters of an input line
LowerChar(c) ==
  CASE c = "O" -> "o"
    [] c = "S" -> "s"
    [] c = "C" -> "c"
    [] c = "A" -> "a"
    [] OTHER -> c

ToLower(s) == [i \in DOMAIN s |-> LowerChar(s[i])]

\* the lines a user may type, without their line end
InputLines ==
  { <<"o">>, <<"S">>, <<"c">>, <<Space, "a", Space>>, <<"x">>, <<>>,
    <<"o", "s">> }

\* switch strings.TrimSpace(strings.ToLower(line)): the choice returned, or
\* "none" for the default case
choiceOf(line) ==
  LET t == TrimSpace(ToLower(line))
  IN  CASE t = <<"o">> -> ChoiceOverwrite
        [] t = <<"s">> -> ChoiceSkip
        [] t = <<"c">> -> ChoiceCompare
        [] t = <<"a">> -> ChoiceCancel
        [] OTHER -> "none"

InitPrompt ==
  /\ ResolveIdle
  /\ CopyIdle
  /\ InitIdle
  /\ raw = <<>>
  /\ parsed = NoParse
  /\ run = 1
  /\ target1 = target
  /\ tdirs1 = tdirs
  /\ reports1 = <<>>
  /\ TuiIdle
  /\ stdin \in SeqOfUpTo(InputLines, MaxLines)
  /\ variant \in {"scanner", "reader"}
  /\ cbpc = "called"
  /\ cbret = "none"
  /\ prompts = 0

\* the two header lines written to stderr before the loop
PromptEnter ==
  /\ cbpc = "called"
  /\ cbpc' = "prompt"
  /\ UNCHANGED <<stdin, cbret, prompts, variant>>
  /\ UNCHANGED <<rvars, cvars, ivars, pvars, svars, uvars>>

\* what one pass of the loop does with the line it read
promptAnswer(line) ==
  IF choiceOf(line) = "none"
    THEN UNCHANGED <<cbpc, cbret>>
    ELSE /\ cbpc' = "returned"
         /\ cbret' = choiceOf(line)

\* one pass of the loop of init.go: "Choice: ", scanner.Scan(), Cancel when
\* it reports the end of the input, else the switch on the line
PromptScan ==
  /\ cbpc = "prompt"
  /\ variant = "scanner"
  /\ prompts' = prompts + 1
  /\ IF stdin = <<>>
       THEN /\ cbpc' = "returned"
            /\ cbret' = ChoiceCancel
            /\ UNCHANGED stdin
       ELSE /\ stdin' = Tail(stdin)
            /\ promptAnswer(Head(stdin))
  /\ UNCHANGED variant
  /\ UNCHANGED <<rvars, cvars, ivars, pvars, svars, uvars>>

\* one pass of the loop of the version with the shared reader: "Choice: ",
\* reader.ReadString('\n') with its error dropped, so that at the end of
\* the input the line is empty, and the switch on the line
PromptReadString ==
  /\ cbpc = "prompt"
  /\ variant = "reader"
  /\ stdin = <<>> => prompts < MaxLines + MaxEofPrompts
  /\ prompts' = prompts + 1
  /\ IF stdin = <<>>
       THEN /\ promptAnswer(<<>>)
            /\ UNCHANGED stdin
       ELSE /\ stdin' = Tail(stdin)
            /\ promptAnswer(Head(stdin))
  /\ UNCHANGED variant
  /\ UNCHANGED <<rvars, cvars, ivars, pvars, svars, uvars>>

NextPrompt ==
  \/ PromptEnter
  \/ PromptScan
  \/ PromptReadString

SpecPrompt == InitPrompt /\ [][NextPrompt]_vars

\* ------------------------------------------------------------------------
\* Reference definitions for the resolver properties
\* ------------------------------------------------------------------------
\* the parent a profile names, as walkChain reads it
ParentOf(n) == TrimSpace(load[n].ext)

NoRepeat(s) == \A i, j \in DOMAIN s : s[i] = s[j] => i = j

\* the fate of the walk that starts at n: "ok", "cycle" or "loaderr",
\* with the identifier at which it ends
RECURSIVE WalkFate(_, _)
WalkFate(n, vis) ==
  IF n = EmptyStr THEN [fate |-> "ok", at |-> EmptyStr]
  ELSE IF n \in vis THEN [fate |-> "cycle", at |-> n]
  ELSE IF load[n].err THEN [fate |-> "loaderr", at |-> n]
  ELSE WalkFate(ParentOf(n), vis \cup {n})

Fate(n) == WalkFate(n, {})

\* the ancestors of n, root first, ending with n (for walks that are "ok")
RECURSIVE RootFirst(_, _)
RootFirst(n, fuel) ==
  IF n = EmptyStr \/ fuel = 0 THEN <<>>
  ELSE Append(RootFirst(ParentOf(n), fuel - 1), n)

RECURSIVE ConcatChains(_)
ConcatChains(ns) ==
  IF ns = <<>> THEN <<>>
  ELSE RootFirst(Head(ns), Cardinality(Names)) \o ConcatChains(Tail(ns))

FirstOccurrences(s) ==
  LET keep == {i \in DOMAIN s : \A j \in 1..(i - 1) : s[j] # s[i]}
      F[i \in 0..Len(s)] ==
        IF i = 0 THEN <<>>
        ELSE IF i \in keep THEN Append(F[i - 1], s[i]) ELSE F[i - 1]
  IN  F[Len(s)]

\* the requested names whose walk does not end well, and the first of them
BadIdx == {i \in DOMAIN names : Fate(names[i]).fate # "ok"}
FirstBad == CHOOSE i \in BadIdx : \A j \in BadIdx : i <= j

Terminated == rpc \in {"done", "failed"}

\* ------------------------------------------------------------------------
\* C1: a successful Resolve returns a sequence in which no identifier
\* occurs more than once, whatever names are requested and whatever the
\* loader answers.
\* ------------------------------------------------------------------------
C1_NoRepeatedIdentifier == rpc = "done" => NoRepeat(rret)

\* a name requested twice that is also the ancestor of another requested
\* name, resolved successfully
C1_Witness ==
  /\ rpc = "done"
  /\ Len(names) = 3
  /\ names[1] = names[3]
  /\ names[1] # names[2]
  /\ ParentOf(names[2]) = names[1]
  /\ Len(rret) = 2

\* ------------------------------------------------------------------------
\* C2: in a successful Resolve, the non-empty parent of every profile of
\* the result is in the result too, at a strictly smaller index.
\* ------------------------------------------------------------------------
C2_ParentsFirst ==
  rpc = "done" =>
    \A i \in DOMAIN rret :
      ParentOf(rret[i]) # EmptyStr =>
        \E j \in 1..(i - 1) : rret[j] = ParentOf(rret[i])

\* the child is requested before its parent, and a grandparent exists
C2_Witness ==
  /\ rpc = "done"
  /\ Len(names) = 2
  /\ ParentOf(names[1]) = names[2]
  /\ ParentOf(names[2]) # EmptyStr
  /\ Len(rret) = 3

\* ------------------------------------------------------------------------
\* C3: a successful Resolve returns the concatenation, in request order,
\* of the root-first ancestor chains of the requested names, keeping the
\* first occurrence of each identifier; [P] for a single P without parent;
\* [base, go] for [go], [base, go] and [go, base] when go extends base.
\* ------------------------------------------------------------------------
C3_ConcatFirstOccurrences ==
  rpc = "done" =>
    /\ rret = FirstOccurrences(ConcatChains(names))
    /\ (Len(names) = 1 /\ ParentOf(names[1]) = EmptyStr) => rret = names
    /\ \A base, go \in Names :
         ( /\ base # go
           /\ ParentOf(go) = base
           /\ ParentOf(base) = EmptyStr
           /\ names \in {<<go>>, <<base, go>>, <<go, base>>} )
         => rret = <<base, go>>

\* Resolve([go, base]) with go extending base (written with white space)
C3_Witness ==
  /\ rpc = "done"
  /\ names = << <<"b">>, <<"a">> >>
  /\ load[<<"b">>].ext = <<Space, "a">>
  /\ rret = << <<"a">>, <<"b">> >>

\* ------------------------------------------------------------------------
\* C4: when a walk comes back to an identifier it has already visited,
\* Resolve fails with a circular-dependency error naming the cycle, returns
\* no chain (not even the chains of earlier requested names), and the
\* loader is never called twice for one identifier within a walk.
\* ------------------------------------------------------------------------
C4_CycleFails ==
  /\ NoRepeat(calls)
  /\ (rpc = "walk" /\ current # EmptyStr /\ current \in visiting) =>
        Fate(names[ri]).fate = "cycle"
  /\ (Terminated /\ BadIdx # {} /\ Fate(names[FirstBad]).fate = "cycle") =>
        /\ rpc = "failed"
        /\ rerr.kind = "circular"
        /\ rret = <<>>
        /\ rerr.cycle = Append(calls, Fate(names[FirstBad]).at)
        /\ rerr.cycle[1] = names[FirstBad]
        /\ rerr.cycle[Len(rerr.cycle)] \in Range(calls)
  /\ rpc = "done" => BadIdx = {}

\* a cycle met while walking the second requested name, after the first
\* one's chain had been appended
C4_Witness ==
  /\ rpc = "failed"
  /\ rerr.kind = "circular"
  /\ ri = 2
  /\ result # <<>>
  /\ Len(rerr.cycle) = 3
  /\ rret = <<>>

\* ------------------------------------------------------------------------
\* C5: when the loader fails for an identifier reached while resolving,
\* Resolve stops there (no further loader call), returns an error that
\* wraps the loader's error and names that identifier, and returns no
\* partial chain.
\* ------------------------------------------------------------------------
C5_LoaderFailure ==
  /\ (rpc = "failed" /\ rerr.kind = "resolving") =>
        /\ calls # <<>>
        /\ rerr.name = calls[Len(calls)]
        /\ load[rerr.name].err
        /\ rerr.cause = "loader"
        /\ rret = <<>>
  /\ \A i \in DOMAIN calls : load[calls[i]].err => i = Len(calls) /\ rpc = "failed"
  /\ (Terminated /\ BadIdx # {} /\ Fate(names[FirstBad]).fate = "loaderr") =>
        /\ rpc = "failed"
        /\ rerr.kind = "resolving"
        /\ rerr.name = Fate(names[FirstBad]).at
        /\ rret = <<>>

\* the loader fails for the parent of the second requested name, after
\* the first one's chain had been appended
C5_Witness ==
  /\ rpc = "failed"
  /\ rerr.kind = "resolving"
  /\ ri = 2
  /\ result # <<>>
  /\ Len(calls) = 2
  /\ rret = <<>>

\* ------------------------------------------------------------------------
\* C6: in the init command, resolution and the lookup of every resolved
\* profile are complete before CopyProfile is first called; when resolution
\* fails (cycle or loader error) or a resolved profile cannot be looked up,
\* the command returns an error and the target is as it was: no file and
\* no directory created or modified.
\* ------------------------------------------------------------------------
C6_ResolveAndLookupBeforeCopy ==
  /\ cpc # "idle" =>
        /\ rpc = "done"
        /\ resolved = rret
        /\ profiles = resolved
  /\ pc \in {"lookup", "apply", "copying"} => rpc = "done"
  /\ (pc = "exit" /\ rpc = "failed") => exitErr.kind = "resolving"
  /\ (pc = "exit" /\ rpc = "done" /\ profiles # resolved) =>
        exitErr.kind = "profile"
  /\ (pc = "exit" /\ exitErr.kind \in {"resolving", "profile"}) =>
        /\ cpc = "idle"
        /\ target = target0
        /\ tdirs = tdirs0
        /\ reports = <<>>
        /\ ~installed

\* without --dry-run and with --force, the second of three resolved
\* profiles could not be looked up, over a target that already has files
C6_Witness ==
  /\ pc = "exit"
  /\ exitErr.kind = "profile"
  /\ flags.force
  /\ ~flags.dryRun
  /\ Len(resolved) = 3
  /\ Len(profiles) = 1
  /\ target[<<"agents", "x.md">>] = OldFile
  /\ cpc = "idle"


\* ------------------------------------------------------------------------
\* Reference definitions for the CopyProfile properties
\* ------------------------------------------------------------------------
RelsOf(es) == [i \in DOMAIN es |-> es[i].rel]

\* the files of the walked tree that pass the content-directory test and
\* the filters, in walk order
QualifyingRels == RelsOf(SelectSeq(tree, Qualifies))

InCall == cpc \in {"walk", "conflict", "returned"}

\* the walk function is about to handle a qualifying file
AtFile == cpc = "walk" /\ wi <= Len(tree) /\ Qualifies(tree[wi])

AtNewFile == AtFile /\ ~Exists(target, tdirs, tree[wi].rel)

AtExistingFile == AtFile /\ Exists(target, tdirs, tree[wi].rel)

\* the step recorded the file as copied; without DryRun the destination
\* now holds the profile's content and its parent directories exist
StepCopied ==
  /\ cres'.Copied = Append(cres.Copied, tree[wi].rel)
  /\ cres'.Skipped = cres.Skipped
  /\ cres'.Errors = cres.Errors
  /\ IF opts.DryRun
       THEN target' = target /\ tdirs' = tdirs
       ELSE /\ target'[tree[wi].rel].content = tree[wi].content
            /\ \A r \in DestRels \ {tree[wi].rel} : target'[r] = target[r]
            /\ tdirs' = tdirs \cup Ancestors(tree[wi].rel)

\* the step called CopyFile, it failed, and the file went into Errors
StepCopyFailed ==
  /\ ~opts.DryRun
  /\ cres'.Errors = Append(cres.Errors, tree[wi].rel)
  /\ cres'.Copied = cres.Copied
  /\ cres'.Skipped = cres.Skipped

\* the step neither invoked the callback nor entered resolveConflict
StepDidNotAsk == asked' = asked /\ cpc' = "walk" /\ wi' = wi + 1

\* ------------------------------------------------------------------------
\* C7: with DryRun set, whatever the strategy, the filters and the
\* callback's answers, CopyProfile leaves the target as it found it: the
\* same files with the same contents and the same directories, whatever the
\* result lists.
\* ------------------------------------------------------------------------
C7_DryRunTouchesNothing ==
  (InCall /\ callOpts.DryRun) => (target = target0 /\ tdirs = tdirs0)

\* a dry run that reported a new file and an overwritten one as copied,
\* the latter after asking the callback
C7_Witness ==
  /\ cpc = "returned"
  /\ callOpts.DryRun
  /\ asked # {}
  /\ \E i, j \in DOMAIN cres.Copied :
       /\ target[cres.Copied[i]] = NoFile
       /\ target[cres.Copied[j]] = OldFile

\* ------------------------------------------------------------------------
\* C8 as stated: a qualifying file whose destination does not exist is
\* copied (under dry-run: recorded as copied) for every strategy, and
\* neither strategy nor callback is consulted.
\* ------------------------------------------------------------------------
C8_Original == [][AtNewFile => (StepCopied /\ StepDidNotAsk)]_vars

\* C8 amended: for a qualifying file whose destination does not exist the
\* copy is attempted for every strategy, without consulting strategy or
\* callback: the file is copied and recorded as copied (under dry-run only
\* recorded), unless CopyFile fails, and then it is recorded in errors.
C8_NewFileAlwaysCopied ==
  [][AtNewFile => ((StepCopied \/ StepCopyFailed) /\ StepDidNotAsk)]_vars

\* under merge, with a callback supplied, a new file was written next to an
\* existing one that was skipped
C8_Witness ==
  /\ InCall
  /\ opts.Strategy = StrategyMerge
  /\ opts.OnConflict
  /\ ~opts.DryRun
  /\ asked = {}
  /\ cres.Skipped # <<>>
  /\ \E i \in DOMAIN cres.Copied :
       /\ target0[cres.Copied[i]] = NoFile
       /\ target[cres.Copied[i]] = [content |-> "new", perm |-> SrcPerm]

\* ------------------------------------------------------------------------
\* C9 as stated: under overwrite every qualifying file whose destination
\* exists is overwritten with the profile's version and recorded as copied,
\* and the callback is never invoked.
\* ------------------------------------------------------------------------
C9_Original ==
  [][(AtExistingFile /\ opts.Strategy = StrategyOverwrite) =>
       /\ cres'.Copied = Append(cres.Copied, tree[wi].rel)
       /\ target'[tree[wi].rel].content = tree[wi].content
       /\ StepDidNotAsk]_vars

\* C9 amended: under overwrite every qualifying file whose destination
\* exists is recorded as copied and, unless DryRun is set, overwritten with
\* the profile's version; a copy that fails is recorded in errors instead;
\* nothing is skipped and the callback is never invoked.
C9_OverwriteNeverAsks ==
  /\ [][(AtExistingFile /\ opts.Strategy = StrategyOverwrite) =>
          ((StepCopied \/ StepCopyFailed) /\ StepDidNotAsk)]_vars
  /\ []((InCall /\ opts.Strategy = StrategyOverwrite) =>
          (asked = {} /\ cres.Skipped = <<>> /\ cpc # "conflict"))

\* an existing file overwritten, with the prompt strategy requested, Force
\* set and a callback supplied
C9_Witness ==
  /\ cpc = "returned"
  /\ callOpts.Strategy = StrategyPrompt
  /\ opts.Strategy = StrategyOverwrite
  /\ opts.OnConflict
  /\ ~opts.DryRun
  /\ asked = {}
  /\ \E i \in DOMAIN cres.Copied :
       /\ target0[cres.Copied[i]] = OldFile
       /\ target[cres.Copied[i]].content = "new"

\* ------------------------------------------------------------------------
\* C10: under merge, when every qualifying file of the profile already
\* exists in the target, CopyProfile returns with nothing in copied, every
\* qualifying file in skipped, and the target unchanged.
\* ------------------------------------------------------------------------
C10_MergeSkipsExisting ==
  ( /\ cpc = "returned"
    /\ opts.Strategy = StrategyMerge
    /\ \A i \in DOMAIN QualifyingRels :
         Exists(target0, tdirs0, QualifyingRels[i]) )
  => /\ cerr = NilError
     /\ cres.Copied = <<>>
     /\ cres.Skipped = QualifyingRels
     /\ target = target0
     /\ tdirs = tdirs0
     /\ asked = {}

\* three existing files skipped under merge, without DryRun
C10_Witness ==
  /\ cpc = "returned"
  /\ opts.Strategy = StrategyMerge
  /\ ~opts.DryRun
  /\ opts.OnConflict
  /\ Len(QualifyingRels) = 3
  /\ cres.Skipped = QualifyingRels
  /\ \A i \in DOMAIN QualifyingRels : target0[QualifyingRels[i]] = OldFile

\* the step recorded the file as skipped and left the target alone
StepSkipped ==
  /\ cres'.Skipped = Append(cres.Skipped, tree[wi].rel)
  /\ cres'.Copied = cres.Copied
  /\ cres'.Errors = cres.Errors
  /\ target' = target
  /\ tdirs' = tdirs

\* ------------------------------------------------------------------------
\* C11: under the prompt strategy with no callback supplied, every
\* qualifying file whose destination exists is recorded as skipped, and no
\* file that was in the target when CopyProfile was called is overwritten.
\* ------------------------------------------------------------------------
C11_PromptWithoutCallbackSkips ==
  /\ [][(AtExistingFile /\ opts.Strategy = StrategyPrompt /\ ~opts.OnConflict)
          => (StepSkipped /\ StepDidNotAsk)]_vars
  /\ []((InCall /\ opts.Strategy = StrategyPrompt /\ ~opts.OnConflict) =>
          /\ asked = {}
          /\ cpc # "conflict"
          /\ \A r \in DestRels : target0[r] # NoFile => target[r] = target0[r])

\* prompt without callback and without DryRun: two existing files skipped
\* and still as they were, a new file written
C11_Witness ==
  /\ cpc = "returned"
  /\ opts.Strategy = StrategyPrompt
  /\ ~opts.OnConflict
  /\ ~opts.DryRun
  /\ Len(cres.Skipped) = 2
  /\ \A i \in DOMAIN cres.Skipped : target[cres.Skipped[i]] = OldFile
  /\ \E i \in DOMAIN cres.Copied : target[cres.Copied[i]].content = "new"

\* the callback's answer in the step that is being taken is Compare
\* (without an error)
AnswersCompare == answer'.choice = ChoiceCompare /\ ~answer'.err

\* ------------------------------------------------------------------------
\* C12: while a file is in conflict every step is an invocation of the
\* callback for that file; after an answer of Compare the callback is
\* invoked again for the same file, however many times it has answered
\* Compare before, and nothing is recorded or written; the first answer
\* that is not Compare ends the loop and is the decision, so the decision
\* is never Compare.
\* ------------------------------------------------------------------------
C12_CompareAsksAgain ==
  /\ [][cpc = "conflict" =>
          /\ answer' # NoAnswer
          /\ tree[wi].rel \in asked'
          /\ IF AnswersCompare
               THEN /\ cpc' = "conflict"
                    /\ wi' = wi
                    /\ tree' = tree
                    /\ compares' = compares + 1
                    /\ UNCHANGED <<cres, cerr, target, tdirs, decision>>
               ELSE /\ cpc' # "conflict"
                    /\ decision'.choice = answer'.choice
                    /\ answer'.err => decision'.err # NilError]_vars
  /\ [](decision.err = NilError => decision.choice # ChoiceCompare)

\* the callback has answered Compare twice for the second conflicting file
\* of the walk and is about to be invoked for it again
C12_Witness ==
  /\ cpc = "conflict"
  /\ compares >= 2
  /\ answer = [choice |-> ChoiceCompare, err |-> FALSE]
  /\ tree[wi].rel \in asked
  /\ Cardinality(asked) = 2

\* the callback's answer in the step that is being taken is Cancel
\* (without an error)
AnswersCancel == answer'.choice = ChoiceCancel /\ ~answer'.err

\* the relative paths the result lists
Recorded == Range(cres.Copied) \cup Range(cres.Skipped) \cup Range(cres.Errors)

\* ------------------------------------------------------------------------
\* C13: when the callback answers Cancel for a file, CopyProfile returns
\* in that very step with the cancellation error and the result as it was;
\* the cancelled file is neither written nor recorded; no entry later in
\* the walk is recorded, shown to the callback or written; and CopyProfile
\* returns the cancellation error only when the callback answered Cancel.
\* ------------------------------------------------------------------------
C13_CancelStopsWalk ==
  /\ [][(cpc = "conflict" /\ AnswersCancel) =>
          /\ cpc' = "returned"
          /\ cerr' = errCancelled
          /\ wi' = wi
          /\ UNCHANGED <<cres, target, tdirs>>]_vars
  /\ []((cpc = "returned" /\ cerr = errCancelled) =>
          /\ answer = [choice |-> ChoiceCancel, err |-> FALSE]
          /\ wi <= Len(tree)
          /\ Qualifies(tree[wi])
          /\ tree[wi].rel \notin Recorded
          /\ target[tree[wi].rel] = target0[tree[wi].rel]
          /\ \A j \in (wi + 1)..Len(tree) :
               /\ tree[j].rel \notin Recorded \cup asked
               /\ tree[j].kind = "file" =>
                    target[tree[j].rel] = target0[tree[j].rel])
  /\ [](cpc = "returned" =>
          /\ cerr \in {NilError, errCancelled}
          /\ (cerr = errCancelled) =
               (answer = [choice |-> ChoiceCancel, err |-> FALSE]))

\* without DryRun, Cancel answered for the second conflicting file after
\* the first was overwritten, with a new file still to come in the walk
C13_Witness ==
  /\ cpc = "returned"
  /\ cerr = errCancelled
  /\ ~opts.DryRun
  /\ Len(cres.Copied) = 1
  /\ target[cres.Copied[1]].content = "new"
  /\ Cardinality(asked) = 2
  /\ \E j \in (wi + 1)..Len(tree) :
       Qualifies(tree[j]) /\ target[tree[j].rel] = NoFile

\* the init command has ended because the callback answered Cancel while
\* the second of three profiles was being applied
CancelledInSecondOfThree ==
  /\ pc = "exit"
  /\ exitErr.kind = "copying"
  /\ exitErr.cause = errCancelled
  /\ Len(profiles) = 3
  /\ pi = 2

\* ------------------------------------------------------------------------
\* C14: when the callback answers Cancel while the second of three
\* profiles is applied, the third profile is never materialized, and what
\* is reported to the caller holds the complete result of the first
\* profile and the partial result of the second.
\* ------------------------------------------------------------------------
C14_CancelReportsPartialResult ==
  CancelledInSecondOfThree =>
    /\ tree = trees[profiles[2]]
    /\ \A r \in DestRels : target[r].content # "c"
    /\ Len(reports) = 2
    /\ reports[1].name = profiles[1]
    /\ reports[2] = [name |-> profiles[2], result |-> cres]

\* the walk function is handed an entry that could not be read
AtWalkError == cpc = "walk" /\ wi <= Len(tree) /\ tree[wi].kind = "err"

\* ------------------------------------------------------------------------
\* C15: a CopyFile call that fails, and a walk entry that cannot be read,
\* each add exactly one entry to the result's errors; whenever an entry is
\* added to errors nothing is added to copied or skipped, the walk goes on
\* with the next entry and no error is set for CopyProfile to return; no
\* file is in both errors and copied; and CopyProfile returns an error
\* only when the callback cancelled, whatever the errors list holds.
\* ------------------------------------------------------------------------
C15_FileErrorRecordedWalkGoesOn ==
  /\ [][(InCall /\ (faults' # faults \/ AtWalkError)) =>
          cres'.Errors = Append(cres.Errors, tree[wi].rel)]_vars
  /\ [][(InCall /\ cres'.Errors # cres.Errors) =>
          /\ cres'.Errors = Append(cres.Errors, tree[wi].rel)
          /\ cres'.Copied = cres.Copied
          /\ cres'.Skipped = cres.Skipped
          /\ wi' = wi + 1
          /\ cpc' = "walk"
          /\ cerr' = NilError]_vars
  /\ [](InCall => Range(cres.Copied) \cap Range(cres.Errors) = {})
  /\ []((cpc = "returned"
          /\ answer # [choice |-> ChoiceCancel, err |-> FALSE]) =>
            cerr = NilError)

\* CopyProfile returned without error after one file failed to copy, with
\* a file later in the walk copied
C15_Witness ==
  /\ cpc = "returned"
  /\ cerr = NilError
  /\ faults = 1
  /\ Len(cres.Errors) = 1
  /\ \E j, k \in DOMAIN tree :
       /\ j < k
       /\ tree[j].kind = "file"
       /\ tree[j].rel = cres.Errors[1]
       /\ tree[k].rel \in Range(cres.Copied)
       /\ target[tree[k].rel].content = "new"

\* the relative paths CopyProfile has changed in the target so far
Written == {r \in DestRels : target[r] # target0[r]}

\* r is a regular file of the walked tree / a directory of it
IsTreeFile(r) == \E i \in DOMAIN tree : tree[i].rel = r /\ tree[i].kind = "file"
IsTreeDir(r) == \E i \in DOMAIN tree : tree[i].rel = r /\ tree[i].kind # "file"

\* the four names, written out
ContentNames == {"agents", "commands", "skills", "plugins"}

OneFilterAtMost == opts.IncludeDirs = <<>> \/ opts.ExcludeDirs = <<>>

\* the relative path is below a content directory that the include list
\* names, or that the exclude list does not name, or below any content
\* directory when both lists are empty
Selected(r) ==
  /\ r # <<>>
  /\ r[1] \in ContentNames
  /\ IF opts.IncludeDirs # <<>>
       THEN \E i \in DOMAIN opts.IncludeDirs : opts.IncludeDirs[i] = r[1]
     ELSE IF opts.ExcludeDirs # <<>>
       THEN \A i \in DOMAIN opts.ExcludeDirs : opts.ExcludeDirs[i] # r[1]
     ELSE TRUE

\* the files the walk presents to the walk function
TreeFiles == {tree[i].rel : i \in {j \in DOMAIN tree : tree[j].kind = "file"}}

\* ------------------------------------------------------------------------
\* C17: with an include list the files CopyProfile processes (records,
\* writes or shows to the callback) are exactly the content files whose
\* top-level directory is in the list, with an exclude list exactly those
\* whose top-level directory is not in the list, with neither all content
\* files; a file that is filtered out is in none of copied, skipped and
\* errors, is not shown to the callback and is not written.
\* ------------------------------------------------------------------------
C17_FiltersSelectContent ==
  /\ [][(cpc = "walk" /\ wi <= Len(tree) /\ tree[wi].kind = "file"
           /\ OneFilterAtMost) =>
          IF Selected(tree[wi].rel)
            THEN \/ cpc' = "conflict"
                 \/ /\ Len(cres'.Copied) + Len(cres'.Skipped)
                         + Len(cres'.Errors)
                       = Len(cres.Copied) + Len(cres.Skipped)
                         + Len(cres.Errors) + 1
                    /\ tree[wi].rel \in Recorded'
            ELSE /\ UNCHANGED <<cres, target, tdirs, asked>>
                 /\ cpc' = "walk"]_vars
  /\ []((InCall /\ OneFilterAtMost) =>
          \A r \in (Recorded \cap TreeFiles) \cup Written \cup asked :
            Selected(r))
  /\ []((cpc = "returned" /\ cerr = NilError /\ OneFilterAtMost) =>
          (Recorded \cap TreeFiles) \cup asked
            = {r \in TreeFiles : Selected(r)})

\* --exclude plugins,agents without DryRun on a profile with agents/,
\* plugins/ and skills/: only the skills file is copied
C17_Witness ==
  /\ cpc = "returned"
  /\ ~opts.DryRun
  /\ opts.ExcludeDirs = <<"plugins", "agents">>
  /\ cres.Copied = << <<"skills", "s", "SKILL.md">> >>
  /\ cres.Skipped = <<>>
  /\ cres.Errors = <<>>
  /\ <<"agents", "x.md">> \in TreeFiles
  /\ target[<<"agents", "x.md">>] = NoFile
  /\ target[<<"plugins", "p.ts">>] = NoFile

\* the command line gives both --only and --exclude
BothFiltersGiven == flags.onlyRaw # <<>> /\ flags.excludeRaw # <<>>

\* ------------------------------------------------------------------------
\* C18: an init request with both an include and an exclude filter is
\* rejected with an error while nothing has been resolved, looked up or
\* walked and the target is as it was; and CopyProfile is never called
\* with both IncludeDirs and ExcludeDirs non-empty.
\* ------------------------------------------------------------------------
C18_BothFiltersRejected ==
  /\ BothFiltersGiven =>
       /\ pc \in {"start", "exit"}
       /\ pc = "exit" => exitErr.kind \in {"only-exclude", "force-merge"}
       /\ rpc = "idle"
       /\ calls = <<>>
       /\ profiles = <<>>
       /\ cpc = "idle"
       /\ target = target0
       /\ tdirs = tdirs0
  /\ cpc # "idle" =>
       /\ callOpts.IncludeDirs = <<>> \/ callOpts.ExcludeDirs = <<>>
       /\ cpc # "called" => (opts.IncludeDirs = <<>> \/ opts.ExcludeDirs = <<>>)

\* --only agents together with --exclude plugins,skills, each valid on its
\* own, rejected over a target that already has files
C18_Witness ==
  /\ pc = "exit"
  /\ exitErr.kind = "only-exclude"
  /\ parseContentDirs(flags.onlyRaw).dirs = <<"agents">>
  /\ parseContentDirs(flags.excludeRaw).dirs = <<"plugins", "skills">>
  /\ names # <<>>
  /\ target[<<"agents", "x.md">>] = OldFile

\* ------------------------------------------------------------------------
\* Reference definitions for parseContentDirs, by positions in the string
\* ------------------------------------------------------------------------
\* the positions of the commas, with the two ends of the string
Cuts == {0, Len(raw) + 1} \cup {i \in DOMAIN raw : raw[i] = ","}

NextCut(b) == CHOOSE c \in Cuts : c > b /\ \A d \in Cuts : d > b => c <= d

\* the token that starts after the cut b: the characters up to the next
\* cut, from the first to the last that is not white space
Token(b) ==
  LET inside == {i \in (b + 1)..(NextCut(b) - 1) : raw[i] # Space}
      lo == CHOOSE i \in inside : \A j \in inside : i <= j
      hi == CHOOSE i \in inside : \A j \in inside : j <= i
  IN  IF inside = {} THEN <<>> ELSE SubSeq(raw, lo, hi)

IsContentName(t) == Len(t) = 1 /\ t[1] \in ContentNames

\* the cuts followed by a token that is not one of the four names
InvalidAt ==
  {b \in Cuts \ {Len(raw) + 1} : Token(b) # <<>> /\ ~IsContentName(Token(b))}

NotSeparator(c) == c # "," /\ c # Space

\* ------------------------------------------------------------------------
\* C19: parseContentDirs splits the string at the commas, trims each token
\* and drops the empty ones; when every remaining token is one of agents,
\* commands, skills, plugins it returns them in order, otherwise it returns
\* no list and an error naming the first invalid token and these four
\* names; an empty or all-white-space string yields an empty list and no
\* error.
\* ------------------------------------------------------------------------
C19_ParseFilterString ==
  parsed.called =>
    /\ IF InvalidAt = {}
         THEN /\ ~parsed.ret.err
              /\ parsed.ret.dirs = SelectSeq(raw, NotSeparator)
              /\ \A i \in DOMAIN parsed.ret.dirs :
                   parsed.ret.dirs[i] \in ContentNames
         ELSE /\ parsed.ret.err
              /\ parsed.ret.dirs = <<>>
              /\ parsed.ret.bad =
                   Token(CHOOSE b \in InvalidAt : \A c \in InvalidAt : b <= c)
              /\ Range(parsed.ret.oneOf) = ContentNames
    /\ (\A i \in DOMAIN raw : raw[i] = Space) =>
         (~parsed.ret.err /\ parsed.ret.dirs = <<>>)

\* " plugins, " parsed into [plugins]
C19_Witness ==
  /\ parsed.called
  /\ raw = <<Space, "plugins", ",", Space>>
  /\ ~parsed.ret.err
  /\ parsed.ret.dirs = <<"plugins">>

\* the qualifying files of a profile tree under the options in force
QualifyingOf(tr) == RelsOf(SelectSeq(tr, Qualifies))

\* the second run of the apply loop has ended
SecondRunDone == run = 2 /\ pc = "exit"

\* what C20 says of the second run: the target is as the first run left
\* it, and every profile's result has all its qualifying files in copied
\* and nothing else
SecondRunRepeatsFirst ==
  /\ target = target1
  /\ tdirs = tdirs1
  /\ Len(reports) = Len(profiles)
  /\ \A i \in DOMAIN reports :
       /\ reports[i].name = profiles[i]
       /\ reports[i].result.Copied = QualifyingOf(trees[profiles[i]])
       /\ reports[i].result.Skipped = <<>>
       /\ reports[i].result.Errors = <<>>

FilesAt(n, r) ==
  {trees[n][i] : i \in {j \in DOMAIN trees[n] :
                          trees[n][j].kind = "file" /\ trees[n][j].rel = r}}

\* profile n contributes r: it holds a file there that passes the filters
Contributes(n, r) == FilesAt(n, r) # {} /\ Selected(r)

\* the positions in the chain of the profiles that contribute r
Contributors(r) == {i \in DOMAIN profiles : Contributes(profiles[i], r)}

LastOf(S) == CHOOSE i \in S : \A j \in S : j <= i
FirstOf(S) == CHOOSE i \in S : \A j \in S : i <= j

ContentOf(n, r) == (CHOOSE e \in FilesAt(n, r) : TRUE).content

\* the init command has applied every profile of the chain
AllApplied == pc = "exit" /\ exitErr.kind \in {"none", "bun"}

\* the profiles are applied in the order of the resolved chain
AppliedInChainOrder ==
  /\ \A i \in DOMAIN reports : reports[i].name = resolved[i]
  /\ pc = "copying" =>
       /\ profiles = resolved
       /\ tree = trees[resolved[pi]]
       /\ Len(reports) = pi - 1

\* every path that profiles of the chain contribute holds the content of
\* the last of them
LastContributorWins ==
  \A r \in DestRels :
    Contributors(r) # {} =>
      target[r].content = ContentOf(profiles[LastOf(Contributors(r))], r)

FailedLookups ==
  {i \in DOMAIN resolved :
     \E k \in DOMAIN totals.errors :
       totals.errors[k] = GetFailure(resolved[i])}

\* the wizard's copy step has run to its end or hands CopyProfile a profile
TuiInCopyStep == pc \in {"copy", "tuiCopying", "done", "failed"}

\* ------------------------------------------------------------------------
\* C22: when the lookup of a profile of the chain fails in the wizard's
\* copy step, the copier is not called for that profile, the command ends
\* with an error naming it, and no later profile is handed to the copier.
\* ------------------------------------------------------------------------
C22_LookupFailureAborts ==
  TuiInCopyStep =>
    \A i \in FailedLookups :
      /\ pc = "failed"
      /\ exitErr = [kind |-> "profile", name |-> resolved[i]]
      /\ \A k \in DOMAIN profiles :
           \E j \in 1..(i - 1) : profiles[k] = resolved[j]

\* ------------------------------------------------------------------------
\* C23: after a copy that succeeded the destination has the permission bits
\* of the source, whether the destination is new or an existing file that
\* was overwritten, and every parent directory of the destination exists.
\* ------------------------------------------------------------------------
C23_CopyPreservesPermissions ==
  [][(/\ cpc \in {"walk", "conflict"}
      /\ wi <= Len(tree)
      /\ ~opts.DryRun
      /\ cres'.Copied = Append(cres.Copied, tree[wi].rel))
       => /\ target'[tree[wi].rel].perm = tree[wi].perm
          /\ Ancestors(tree[wi].rel) \subseteq tdirs']_vars

\* ------------------------------------------------------------------------
\* Reference definitions for files written earlier in the chain
\* ------------------------------------------------------------------------
\* the positions of the profiles already applied that wrote the path r
EarlierWriters(r) ==
  {i \in DOMAIN reports :
     ~flags.dryRun /\ r \in Range(reports[i].result.Copied)}

\* the profile being applied is at a file that an earlier profile wrote
AtFileWrittenEarlier ==
  /\ pc = "copying"
  /\ AtFile
  /\ EarlierWriters(tree[wi].rel) # {}

\* ------------------------------------------------------------------------
\* C24: a file that an earlier profile of the chain wrote is an existing
\* destination for every later profile.  Under merge the later profile's
\* file is recorded as skipped and the content stays that of the profile
\* that wrote it, so that at the end every later contributor lists the path
\* as skipped; under prompt the walk hands the file to resolveConflict and
\* the next step is the callback invoked for that file.
\* ------------------------------------------------------------------------
C24_EarlierFilesAreConflicts ==
  /\ [][AtFileWrittenEarlier =>
          /\ target[tree[wi].rel] # NoFile
          /\ opts.Strategy = StrategyMerge =>
               /\ StepSkipped
               /\ StepDidNotAsk
          /\ opts.Strategy = StrategyPrompt =>
               /\ cpc' = "conflict"
               /\ wi' = wi
               /\ cres' = cres
               /\ target' = target]_vars
  /\ [][(pc = "copying" /\ cpc = "conflict") =>
          asked' = asked \cup {tree[wi].rel}]_vars
  /\ [](flags.merge /\ ~flags.force =>
          \A r \in DestRels : \A i \in EarlierWriters(r) :
            /\ target[r].content = ContentOf(profiles[i], r)
            /\ \A j \in DOMAIN reports :
                 (j > i /\ Contributes(profiles[j], r)) =>
                   /\ r \in Range(reports[j].result.Skipped)
                   /\ r \notin Range(reports[j].result.Copied))

\* a then b applied with --merge to an empty target: agents/x.md is as a
\* wrote it and b's result lists it as skipped
C24_Witness ==
  /\ flags.merge
  /\ ~flags.force
  /\ Len(reports) >= 2
  /\ profiles[1] = <<"a">>
  /\ profiles[2] = <<"b">>
  /\ reports[1].result.Copied = << <<"agents", "x.md">> >>
  /\ <<"agents", "x.md">> \in Range(reports[2].result.Skipped)
  /\ target[<<"agents", "x.md">>] = [content |-> "a", perm |-> SrcPerm]

\* b is applied under the prompt strategy and the callback has been invoked
\* for agents/x.md, which a wrote
C24_WitnessPrompt ==
  /\ ~flags.merge
  /\ ~flags.force
  /\ pc = "copying"
  /\ Len(reports) = 1
  /\ reports[1].result.Copied = << <<"agents", "x.md">> >>
  /\ target[<<"agents", "x.md">>].perm = SrcPerm
  /\ asked = {<<"agents", "x.md">>}

\* ------------------------------------------------------------------------
\* C25: the copied and skipped lists a dry run reports for each profile are
\* those the real run reports that starts from the same target, when no
\* file operation fails in either run.
\* ------------------------------------------------------------------------
C25_DryRunPreviewsRealRun ==
  (/\ run = 2
   /\ pc = "exit"
   /\ exitErr.kind \in {"none", "bun"}
   /\ faults = 0) =>
    /\ Len(reports) = Len(reports1)
    /\ \A i \in DOMAIN reports :
         /\ reports[i].name = reports1[i].name
         /\ reports[i].result.Copied = reports1[i].result.Copied
         /\ reports[i].result.Skipped = reports1[i].result.Skipped

\* ------------------------------------------------------------------------
\* Reference definitions for the invocation of the callback
\* ------------------------------------------------------------------------
\* the relative path is below a content directory and passes the include
\* and the exclude list
PassesFilters(r) ==
  /\ r # <<>>
  /\ r[1] \in ContentNames
  /\ opts.IncludeDirs # <<>> => r[1] \in Range(opts.IncludeDirs)
  /\ opts.ExcludeDirs # <<>> => r[1] \notin Range(opts.ExcludeDirs)

\* the four conditions under which a file is shown to the callback
MustAsk(e) ==
  /\ opts.Strategy = StrategyPrompt
  /\ opts.OnConflict
  /\ e.kind = "file"
  /\ PassesFilters(e.rel)
  /\ (target[e.rel] # NoFile \/ e.rel \in tdirs)

\* ------------------------------------------------------------------------
\* C26: the walk hands an entry to the callback exactly when the strategy
\* in force is prompt, a callback is supplied, the entry is a file that
\* passes the content-directory test and the filters, and its destination
\* exists; the callback is then invoked for that file, and it is invoked
\* for nothing else; DryRun plays no part in this.
\* ------------------------------------------------------------------------
C26_CallbackInvokedIff ==
  /\ [][(cpc = "walk" /\ wi <= Len(tree)) =>
          ((cpc' = "conflict") <=> MustAsk(tree[wi]))]_vars
  /\ [][cpc = "conflict" =>
          (asked' = asked \cup {tree[wi].rel} /\ MustAsk(tree[wi]))]_vars
  /\ [][(cpc = "walk") => asked' = asked]_vars
  /\ [](InCall =>
          \A r \in asked :
            /\ opts.Strategy = StrategyPrompt
            /\ opts.OnConflict
            /\ IsTreeFile(r)
            /\ PassesFilters(r))

\* a dry run under prompt has returned after the callback was asked about
\* agents/x.md
C26_Witness ==
  /\ cpc = "returned"
  /\ opts.DryRun
  /\ opts.Strategy = StrategyPrompt
  /\ asked = {<<"agents", "x.md">>}
  /\ target = target0

\* ------------------------------------------------------------------------
\* C27 as stated: with Force set, whatever strategy was passed, every
\* qualifying file whose destination exists is overwritten with the
\* profile's version and the callback is never invoked.
\* ------------------------------------------------------------------------
C27_Original ==
  /\ [][(AtExistingFile /\ callOpts.Force) =>
          /\ StepDidNotAsk
          /\ cres'.Copied = Append(cres.Copied, tree[wi].rel)
          /\ target'[tree[wi].rel].content = tree[wi].content]_vars
  /\ []((InCall /\ callOpts.Force) => asked = {})

\* ------------------------------------------------------------------------
\* C27 amended: with Force set, whatever strategy was passed, CopyProfile
\* runs with the options of an overwrite call: every qualifying file whose
\* destination exists is recorded as copied and, unless DryRun is set,
\* overwritten with the profile's version; a copy that fails is recorded in
\* errors instead; nothing is skipped and the callback is never invoked.
\* ------------------------------------------------------------------------
C27_ForceIsOverwrite ==
  /\ []((InCall /\ callOpts.Force) =>
          /\ opts = [callOpts EXCEPT !.Strategy = StrategyOverwrite]
          /\ asked = {}
          /\ cres.Skipped = <<>>
          /\ cpc # "conflict")
  /\ [][(AtExistingFile /\ callOpts.Force) =>
          ((StepCopied \/ StepCopyFailed) /\ StepDidNotAsk)]_vars

\* Force set on a merge call with a callback: the two files that were in
\* the target are overwritten, nothing is skipped, nothing asked
C27_Witness ==
  /\ cpc = "returned"
  /\ callOpts.Force
  /\ callOpts.Strategy = StrategyMerge
  /\ callOpts.OnConflict
  /\ ~callOpts.DryRun
  /\ asked = {}
  /\ cres.Skipped = <<>>
  /\ \E i \in DOMAIN cres.Copied :
       /\ target0[cres.Copied[i]] = OldFile
       /\ target[cres.Copied[i]] = [content |-> "new", perm |-> OldPerm]

\* ------------------------------------------------------------------------
\* C28: when the callback returns an error for a file, whatever choice
\* comes with it, the file is appended to errors and to no other list,
\* nothing is written, the walk goes on with the next entry and no error is
\* set for the call; a call that returns the cancellation error had Cancel
\* without an error as its last answer.
\* ------------------------------------------------------------------------
C28_CallbackErrorRecorded ==
  /\ [][(cpc = "conflict" /\ answer'.err) =>
          /\ cres'.Errors = Append(cres.Errors, tree[wi].rel)
          /\ cres'.Copied = cres.Copied
          /\ cres'.Skipped = cres.Skipped
          /\ target' = target
          /\ tdirs' = tdirs
          /\ cpc' = "walk"
          /\ wi' = wi + 1
          /\ cerr' = NilError]_vars
  /\ []((cpc = "returned" /\ cerr # NilError) =>
          (cerr = errCancelled /\ answer = [choice |-> ChoiceCancel,
                                            err |-> FALSE]))

\* the callback answered Cancel together with an error for agents/x.md:
\* the file is in errors and untouched, later files were copied, and the
\* call returned without an error
C28_Witness ==
  /\ cpc = "returned"
  /\ cerr = NilError
  /\ asked = {<<"agents", "x.md">>}
  /\ answer = [choice |-> ChoiceCancel, err |-> TRUE]
  /\ cres.Errors = << <<"agents", "x.md">> >>
  /\ cres.Copied # <<>>
  /\ target[<<"agents", "x.md">>] = OldFile

\* ------------------------------------------------------------------------
\* Reference definitions for the partition of the result
\* ------------------------------------------------------------------------
\* how often r occurs in the list s
Occurrences(s, r) == Cardinality({i \in DOMAIN s : s[i] = r})

\* the files the walk presents that pass the content-directory test and the
\* filters
QualifyingFiles ==
  {tree[i].rel : i \in {j \in DOMAIN tree :
                          tree[j].kind = "file" /\ PassesFilters(tree[j].rel)}}

\* ------------------------------------------------------------------------
\* C29: when CopyProfile has returned without the cancellation error and
\* the callback answered only with Overwrite, Skip, Compare or Cancel,
\* every file of the walk that passes the content-directory test and the
\* filters occurs exactly once in copied, skipped and errors taken
\* together, no path is in two of the lists, and no other file is in any.
\* ------------------------------------------------------------------------
C29_ResultPartitionsFiles ==
  (cpc = "returned" /\ cerr = NilError) =>
    /\ \A r \in QualifyingFiles :
         Occurrences(cres.Copied, r) + Occurrences(cres.Skipped, r)
           + Occurrences(cres.Errors, r) = 1
    /\ Range(cres.Copied) \cap Range(cres.Skipped) = {}
    /\ Range(cres.Copied) \cap Range(cres.Errors) = {}
    /\ Range(cres.Skipped) \cap Range(cres.Errors) = {}
    /\ \A r \in Recorded : IsTreeFile(r) => r \in QualifyingFiles

\* under prompt the callback answered for every existing file and the call
\* returned: one file copied, one skipped, one in errors, none twice
C29_Witness ==
  /\ cpc = "returned"
  /\ cerr = NilError
  /\ opts.Strategy = StrategyPrompt
  /\ Cardinality(asked) >= 2
  /\ Len(cres.Copied) >= 1
  /\ Len(cres.Skipped) >= 1
  /\ Len(cres.Errors) >= 1
  /\ Len(cres.Copied) + Len(cres.Skipped) + Len(cres.Errors)
       = Cardinality(QualifyingFiles)
  /\ Cardinality(QualifyingFiles) >= 3

\* ------------------------------------------------------------------------
\* C30: the interactive callback of the init command always returns a
\* choice: a line that is none of o, s, c, a is passed over and the prompt
\* is repeated, a valid line returns its choice, and at the end of the
\* input the callback returns Cancel in that very pass of its loop.
\* ------------------------------------------------------------------------
C30_PromptAlwaysReturns ==
  [][cbpc = "prompt" =>
       /\ prompts' = prompts + 1
       /\ stdin = <<>> =>
            (cbpc' = "returned" /\ cbret' = ChoiceCancel)
       /\ (stdin # <<>> /\ choiceOf(Head(stdin)) = "none") =>
            (cbpc' = "prompt" /\ stdin' = Tail(stdin))
       /\ (stdin # <<>> /\ choiceOf(Head(stdin)) # "none") =>
            (cbpc' = "returned" /\ cbret' = choiceOf(Head(stdin)))]_vars

====
